---- MODULE Spec2Model ----
(***************************************************************************)
(* A model of the go-kicad S-expression codec: the Scanner                 *)
(* (sexp/scanner.go), the string literal grammar and the reflective        *)
(* decoder (sexp/decode.go, carried in pcb.go) and the Writer              *)
(* (sexp/writer.go).                                                       *)
(*                                                                         *)
(* Bytes are their integer codes, strings are sequences of bytes.  Every   *)
(* Go function is an operator carrying the function's name; a function     *)
(* that mutates the *Scanner returns the new scanner record next to its    *)
(* result.                                                                 *)
(***************************************************************************)
EXTENDS Integers, Sequences, FiniteSets, TLC

VARIABLES
    input,      \* the bytes the io.Reader will deliver
    scanner,    \* the *Scanner the operation under way works on
    lastOp,     \* the operation that ran last
    lastTok,    \* the token the last Peek or Read returned
    prevOp,     \* the operation before the last
    prevTok,    \* the token returned by the operation before the last
    ins,        \* lexing: the irrelevant run inserted between two tokens
    pos,        \* lexing: the offset at which it is inserted
    toksA,      \* lexing: the token sequence of input
    toksB,      \* lexing: the token sequence of input with ins inserted
    str,        \* literal grammar: the string handed to the Writer
    writer,     \* the *Writer and the bytes its sink has received
    unq,        \* literal grammar: what unquoteString returned
    lit,        \* literal grammar: the parts of the quoted atom decoded
    wlog,       \* Writer: what the calls made so far did
    doc,        \* Decode: the document the input renders
    typeName,   \* Decode: the expected document name
    shape,      \* Decode: the type of the target
    target0,    \* Decode: the caller's target before the call
    target,     \* Decode: the caller's target
    result      \* Decode: how the call ended

vars == << input, scanner, lastOp, lastTok, prevOp, prevTok, ins, pos, toksA,
           toksB, str, writer, unq, lit, wlog, doc, typeName, shape, target0, target, result >>

scanVars == << input, scanner, lastOp, lastTok, prevOp, prevTok >>
lexVars == << ins, pos, toksA, toksB >>
quoteVars == << str, writer, unq, lit, wlog >>
decodeVars == << doc, typeName, shape, target0, target, result >>

-----------------------------------------------------------------------------
(* Bytes *)

NUL == 0
BEL == 7
BSP == 8
TAB == 9
LF == 10
VT == 11
FF == 12
CR == 13
SPC == 32
DQUOTE == 34
HASH == 35
LPAREN == 40
RPAREN == 41
BSLASH == 92

Take(s, n) == SubSeq(s, 1, n)
Drop(s, n) == SubSeq(s, n + 1, Len(s))
Min(a, b) == IF a < b THEN a ELSE b

-----------------------------------------------------------------------------
(* Tokens  (scanner.go:16-35) *)

Token(type, data) == [Type |-> type, Data |-> data]
EOFToken == Token("EOF", << >>)

-----------------------------------------------------------------------------
(* The split function of the bufio.Scanner  (scanner.go:124-277).          *)
(* A result is [advance, hasToken, token, err, newlines]: hasToken tells   *)
(* a nil token from an empty one, newlines is what the call adds to        *)
(* s.lines.                                                                *)

SplitResult(advance, hasToken, token, err, newlines) ==
    [advance |-> advance, hasToken |-> hasToken, token |-> token,
     err |-> err, newlines |-> newlines]

MoreData == SplitResult(0, FALSE, << >>, FALSE, 0)

\* the bytes scanIrrelevant and scanWhitespace take for whitespace
WhitespaceBytes == {LF, CR, SPC, BSP, NUL}

\* the bytes that end a raw atom
RawEndBytes == {LF, CR, SPC, BSP, NUL, LPAREN, RPAREN, HASH}

RECURSIVE scanWhitespaceLoop(_, _, _)
scanWhitespaceLoop(b, size, newlines) ==
    IF Len(b) = 0 THEN SplitResult(size, FALSE, << >>, FALSE, newlines)
    ELSE IF Head(b) = LF THEN scanWhitespaceLoop(Tail(b), size + 1, newlines + 1)
    ELSE IF Head(b) \in {CR, SPC, BSP, NUL} THEN scanWhitespaceLoop(Tail(b), size + 1, newlines)
    ELSE SplitResult(size, FALSE, << >>, FALSE, newlines)

scanWhitespace(data, eof) == scanWhitespaceLoop(data, 0, 0)

RECURSIVE scanCommentLoop(_, _)
scanCommentLoop(b, size) ==
    IF Len(b) = 0 THEN SplitResult(size, FALSE, << >>, FALSE, 0)
    ELSE IF Head(b) \in {LF, CR} THEN SplitResult(size + 1, FALSE, << >>, FALSE, 0)
    ELSE scanCommentLoop(Tail(b), size + 1)

scanComment(data, eof) == scanCommentLoop(Tail(data), 1)

scanIrrelevant(data, eof) ==
    IF Len(data) = 0 THEN MoreData
    ELSE IF Head(data) \in WhitespaceBytes THEN scanWhitespace(data, eof)
    ELSE IF Head(data) = HASH THEN scanComment(data, eof)
    ELSE MoreData

RECURSIVE scanStringLoopLenient(_, _, _, _, _)
\* the loop of scanString taking the end of the stream for the closing quote
scanStringLoopLenient(data, eof, b, advance, escape) ==
    IF Len(b) = 0
    THEN IF eof THEN SplitResult(advance, TRUE, Take(data, advance), FALSE, 0)
         ELSE MoreData
    ELSE IF escape THEN scanStringLoopLenient(data, eof, Tail(b), advance + 1, FALSE)
    ELSE IF Head(b) = BSLASH
         THEN scanStringLoopLenient(data, eof, Tail(b), advance + 1, TRUE)
    ELSE IF Head(b) = DQUOTE
         THEN SplitResult(advance + 1, TRUE, Take(data, advance + 1), FALSE, 0)
    ELSE scanStringLoopLenient(data, eof, Tail(b), advance + 1, FALSE)

\* scanString ending the atom at the first quote, escaped or not
scanStringNoEscape(data, eof) ==
    IF \E i \in 2..Len(data) : data[i] = DQUOTE
    THEN SplitResult(CHOOSE i \in 2..Len(data) :
                         /\ data[i] = DQUOTE
                         /\ \A j \in 2..(i - 1) : data[j] # DQUOTE,
                     TRUE,
                     Take(data, CHOOSE i \in 2..Len(data) :
                                    /\ data[i] = DQUOTE
                                    /\ \A j \in 2..(i - 1) : data[j] # DQUOTE),
                     FALSE, 0)
    ELSE IF eof THEN SplitResult(0, FALSE, << >>, TRUE, 0)
    ELSE MoreData

RECURSIVE scanStringLoop(_, _, _, _, _)
scanStringLoop(data, eof, b, advance, escape) ==
    IF Len(b) = 0
    THEN IF eof THEN SplitResult(0, FALSE, << >>, TRUE, 0) ELSE MoreData
    ELSE IF escape THEN scanStringLoop(data, eof, Tail(b), advance + 1, FALSE)
    ELSE IF Head(b) = BSLASH THEN scanStringLoop(data, eof, Tail(b), advance + 1, TRUE)
    ELSE IF Head(b) = DQUOTE
         THEN SplitResult(advance + 1, TRUE, Take(data, advance + 1), FALSE, 0)
    ELSE scanStringLoop(data, eof, Tail(b), advance + 1, FALSE)

scanString(data, eof) == scanStringLoop(data, eof, Tail(data), 1, FALSE)

RECURSIVE scanRawLoop(_, _, _, _)
scanRawLoop(data, eof, b, advance) ==
    IF Len(b) = 0
    THEN IF eof THEN SplitResult(advance, TRUE, Take(data, advance), FALSE, 0)
         ELSE MoreData
    ELSE IF Head(b) \in RawEndBytes
         THEN SplitResult(advance, TRUE, Take(data, advance), FALSE, 0)
    ELSE scanRawLoop(data, eof, Tail(b), advance + 1)

scanRaw(data, eof) == scanRawLoop(data, eof, data, 0)

\* findToken once scanIrrelevant has returned skip
findTokenAfter(data, eof, skip) ==
    IF skip.advance # 0 \/ skip.hasToken \/ skip.err
    THEN SplitResult(skip.advance, TRUE, << >>, skip.err, skip.newlines)
    ELSE IF Len(data) = 0 THEN MoreData
    ELSE IF Head(data) = LPAREN \/ Head(data) = RPAREN
         THEN SplitResult(1, TRUE, Take(data, 1), FALSE, 0)
    ELSE IF Head(data) = DQUOTE THEN scanString(data, eof)
    ELSE scanRaw(data, eof)

findToken(data, eof) == findTokenAfter(data, eof, scanIrrelevant(data, eof))

-----------------------------------------------------------------------------
(* The Scanner  (scanner.go:9-14, 47-122).  Of the bufio.Scanner it wraps  *)
(* the record keeps the buffered bytes (buf), the bytes the reader has not *)
(* delivered yet (rd), the size of the reader's reads (chunk) and whether  *)
(* the reader has reported the end of the stream (atEOF).                  *)

NewScannerChunked(r, chunk) ==
    [buf |-> << >>, rd |-> r, chunk |-> chunk, atEOF |-> FALSE,
     hasPeeked |-> FALSE, peeked |-> EOFToken, lines |-> 1, eof |-> FALSE]

\* a reader that delivers all it has in one read, as strings.Reader does
NewScanner(r) == NewScannerChunked(r, Len(r) + 1)

\* bufio.Scanner.Scan with findToken as its split function:
\* [ok, err, text, s]
ScanRet(ok, err, text, s) == [ok |-> ok, err |-> err, text |-> text, s |-> s]

RECURSIVE Scan(_)

\* one round of the loop of Scan, r being what the split function returned
\* for the buffered bytes
ScanSplit(s, r) ==
    IF (Len(s.buf) > 0 \/ s.atEOF) /\ r.err
    THEN ScanRet(FALSE, TRUE, << >>, s)
    ELSE IF (Len(s.buf) > 0 \/ s.atEOF) /\ r.hasToken
    THEN ScanRet(TRUE, FALSE, r.token,
                 [s EXCEPT !.buf = Drop(s.buf, r.advance),
                           !.lines = s.lines + r.newlines])
    ELSE IF s.atEOF
    THEN ScanRet(FALSE, FALSE, << >>, [s EXCEPT !.buf = << >>])
    ELSE IF Len(s.rd) = 0
    THEN Scan([s EXCEPT !.atEOF = TRUE])
    ELSE Scan([s EXCEPT !.buf = s.buf \o Take(s.rd, Min(s.chunk, Len(s.rd))),
                        !.rd = Drop(s.rd, Min(s.chunk, Len(s.rd)))])

Scan(s) == ScanSplit(s, findToken(s.buf, s.atEOF))

\* the classification at the end of Peek
Classify(data) ==
    IF data = << LPAREN >> THEN "LEFT"
    ELSE IF data = << RPAREN >> THEN "RIGHT"
    ELSE IF Head(data) = DQUOTE THEN "QUOTE_STRING"
    ELSE "RAW_STRING"

TokRet(tok, s) == [tok |-> tok, s |-> s]

\* the loop of Peek, entered with no token peeked and s.eof unset;
\* r is what s.s.Scan() returned
RECURSIVE PeekLoop(_)

PeekScanned(r) ==
    IF ~r.ok
    THEN IF r.err
         THEN TokRet(Token("INVALID", << >>), [r.s EXCEPT !.eof = TRUE])
         ELSE TokRet(EOFToken, [r.s EXCEPT !.eof = TRUE])
    ELSE IF r.text = << >> THEN PeekLoop(r.s)
    ELSE TokRet(Token(Classify(r.text), r.text),
                [r.s EXCEPT !.hasPeeked = TRUE,
                            !.peeked = Token(Classify(r.text), r.text)])

PeekLoop(s) == PeekScanned(Scan(s))

\* Peek reporting an error once s.eof is set
PeekErrorAtEOF(s) ==
    IF s.hasPeeked THEN TokRet(s.peeked, s)
    ELSE IF s.eof THEN TokRet(Token("INVALID", << >>), s)
    ELSE PeekLoop(s)

\* Scanner.Peek: [tok, s]
Peek(s) ==
    IF s.hasPeeked THEN TokRet(s.peeked, s)
    ELSE IF s.eof THEN TokRet(EOFToken, s)
    ELSE PeekLoop(s)

\* Scanner.Read: [tok, s]; p is what s.Peek() returned
ReadPeeked(p) ==
    IF p.tok.Type # "EOF"
    THEN TokRet(p.tok, [p.s EXCEPT !.hasPeeked = FALSE, !.peeked = EOFToken])
    ELSE p

Read(s) == ReadPeeked(Peek(s))

-----------------------------------------------------------------------------
(* All the tokens of a stream: Read until EOF, as TestScanner does.        *)
(* ends are the offsets of the input at which a token ended.               *)

Remaining(s) == Len(s.buf) + Len(s.rd)

RECURSIVE ReadAll(_, _, _, _)

ReadAllNext(r, total, toks, ends) ==
    IF r.tok.Type = "EOF"
    THEN [toks |-> Append(toks, r.tok), ends |-> ends]
    ELSE ReadAll(r.s, total, Append(toks, r.tok),
                 ends \cup {total - Remaining(r.s)})

ReadAll(s, total, toks, ends) == ReadAllNext(Read(s), total, toks, ends)

TokensOf(r) == ReadAll(NewScanner(r), Len(r), << >>, {0}).toks
TokenEnds(r) == ReadAll(NewScanner(r), Len(r), << >>, {0}).ends

-----------------------------------------------------------------------------
(* The Writer  (writer.go, carried in unnamed/part_001:181-421).  out is   *)
(* what the underlying io.Writer has received; the sink is a bytes.Buffer, *)
(* whose Write never fails.                                                *)

NewWriter ==
    [out |-> << >>, parens |-> 0, indent |-> 0, nextDelim |-> "delimNone",
     writtenOneValue |-> FALSE]

\* what a Writer method returns: the error (TRUE for non-nil) and the Writer
WriterRet(err, w) == [err |-> err, w |-> w]

\* Writer.newline
newline(w) ==
    IF w.nextDelim = "delimIndent" THEN w
    ELSE [w EXCEPT !.out = w.out \o << LF >>, !.nextDelim = "delimIndent"]

RECURSIVE Spaces(_)
Spaces(n) == IF n <= 0 THEN << >> ELSE << SPC >> \o Spaces(n - 1)

\* delimiter that writes nothing
delimiterSilent(w) == [w EXCEPT !.nextDelim = "delimNone"]

\* Writer.delimiter
delimiter(w) ==
    IF w.nextDelim = "delimNone" THEN w
    ELSE IF w.nextDelim = "delimSpace"
    THEN [w EXCEPT !.out = w.out \o << SPC >>, !.nextDelim = "delimNone"]
    ELSE [w EXCEPT !.out = w.out \o Spaces(2 * w.indent), !.nextDelim = "delimNone"]

\* recordWrittenOneValue without its effect
recordWrittenOneValueNever(w) == w

\* Writer.recordWrittenOneValue
recordWrittenOneValue(w) ==
    IF w.parens = 0 THEN [w EXCEPT !.writtenOneValue = TRUE] ELSE w

\* the switch of WriteQuoteString: the bytes written for one byte of str
QuoteByte(ch) ==
    IF ch = LF THEN << BSLASH, 110 >>
    ELSE IF ch = CR THEN << BSLASH, 114 >>
    ELSE IF ch = TAB THEN << BSLASH, 116 >>
    ELSE IF ch = VT THEN << BSLASH, 118 >>
    ELSE IF ch = DQUOTE THEN << BSLASH, DQUOTE >>
    ELSE IF ch = BSLASH THEN << BSLASH, BSLASH >>
    ELSE << ch >>

RECURSIVE QuoteBytes(_)
QuoteBytes(s) == IF Len(s) = 0 THEN << >> ELSE QuoteByte(Head(s)) \o QuoteBytes(Tail(s))

\* Writer.WriteQuoteString: [err, w]
WriteQuoteString(w, s) ==
    IF w.writtenOneValue THEN [err |-> TRUE, w |-> w]
    ELSE LET w1 == delimiter(w)
             w2 == [w1 EXCEPT !.out = w1.out \o << DQUOTE >> \o QuoteBytes(s) \o << DQUOTE >>,
                              !.nextDelim = "delimSpace"]
         IN [err |-> FALSE, w |-> recordWrittenOneValue(w2)]

\* Writer.BeginTuple from its call of w.delimiter()
BeginTupleWrite(w) ==
    WriterRet(FALSE, [delimiter(w) EXCEPT !.out = delimiter(w).out \o << LPAREN >>,
                                          !.indent = w.indent + 1,
                                          !.parens = w.parens + 1,
                                          !.nextDelim = "delimNone"])

\* Writer.BeginTuple
BeginTuple(w) ==
    IF w.indent > 0 THEN BeginTupleWrite(newline(w))
    ELSE IF w.writtenOneValue THEN WriterRet(TRUE, w)
    ELSE BeginTupleWrite(w)

\* EndTuple without its test of w.parens
EndTupleUnchecked(w) == WriterRet(FALSE, recordWrittenOneValue(w))

\* Writer.EndTuple once the closing paren is written and the counters are
\* decremented
EndTupleWritten(w) ==
    IF w.parens < 0 THEN WriterRet(TRUE, w)
    ELSE WriterRet(FALSE, recordWrittenOneValue(w))

\* Writer.EndTuple from the write of the closing paren
EndTupleWrite(w) ==
    EndTupleWritten([w EXCEPT !.out = w.out \o << RPAREN >>,
                              !.nextDelim = "delimSpace",
                              !.indent = w.indent - 1,
                              !.parens = w.parens - 1])

\* Writer.EndTuple
EndTuple(w) ==
    IF w.nextDelim # "delimSpace" THEN EndTupleWrite(delimiter(w))
    ELSE EndTupleWrite(w)

\* Writer.WriteRawString
WriteRawString(w, s) ==
    IF w.writtenOneValue THEN WriterRet(TRUE, w)
    ELSE WriterRet(FALSE,
                   recordWrittenOneValue([delimiter(w) EXCEPT
                                             !.out = delimiter(w).out \o s,
                                             !.nextDelim = "delimSpace"]))

\* the bytes for which WriteString quotes the string
QuotingBytes == {LF, CR, SPC, BSP, NUL, LPAREN, RPAREN, HASH}

\* Writer.WriteString
WriteString(w, s) ==
    IF \E i \in 1..Len(s) : s[i] \in QuotingBytes THEN WriteQuoteString(w, s)
    ELSE WriteRawString(w, s)

\* Writer.WriteToken
WriteToken(w, token) ==
    IF token.Type = "LEFT" THEN BeginTuple(w)
    ELSE IF token.Type = "RIGHT" THEN BeginTuple(w)
    ELSE WriteRawString(w, token.Data)

\* Writer.Close; the sink is no io.Closer
Close(w) ==
    IF w.parens > 0 THEN WriterRet(TRUE, w)
    ELSE IF ~w.writtenOneValue THEN WriterRet(TRUE, w)
    ELSE WriterRet(FALSE, w)

-----------------------------------------------------------------------------
(* The string literal grammar  (pcb.go:1037-1126) *)

isHexDigit(b) == (b >= 48 /\ b <= 57) \/ (b >= 97 /\ b <= 102)
isOctalDigit(b) == b >= 48 /\ b <= 55

\* strconv.ParseUint(digits, base, 16) on digits the caller has checked
DigitValue(b) == IF b >= 97 THEN b - 87 ELSE IF b >= 65 THEN b - 55 ELSE b - 48

RECURSIVE ParseDigits(_, _, _)
ParseDigits(digits, base, acc) ==
    IF Len(digits) = 0 THEN acc
    ELSE ParseDigits(Tail(digits), base, acc * base + DigitValue(Head(digits)))

\* the inner switch of unquoteString for the escapes that stand for one
\* fixed character: the letter after the backslash -> the byte appended
SimpleEscape(c) ==
    IF c = 97 THEN BEL
    ELSE IF c = 98 THEN BSP
    ELSE IF c = 102 THEN FF
    ELSE IF c = 110 THEN LF
    ELSE IF c = 114 THEN CR
    ELSE IF c = 116 THEN TAB
    ELSE VT

SimpleEscapeLetters == {97, 98, 102, 110, 114, 116, 118}

\* the loop of unquoteString over the text between the quotes:
\* [panic, val]; panic is the run-time panic of an index out of range
RECURSIVE unquoteLoop(_, _)
unquoteLoop(raw, ret) ==
    IF Len(raw) = 0 THEN [panic |-> FALSE, val |-> ret]
    ELSE IF raw[1] # BSLASH THEN unquoteLoop(Drop(raw, 1), Append(ret, raw[1]))
    ELSE IF Len(raw) < 2 THEN [panic |-> TRUE, val |-> << >>]
    ELSE IF raw[2] \in SimpleEscapeLetters
         THEN unquoteLoop(Drop(raw, 2), Append(ret, SimpleEscape(raw[2])))
    ELSE IF raw[2] = 120
         THEN IF Len(raw) < 3 \/ ~isHexDigit(raw[3])
              THEN unquoteLoop(Drop(raw, 1), Append(ret, BSLASH))
              ELSE LET digits == IF Len(raw) > 3 /\ isHexDigit(raw[4])
                                 THEN SubSeq(raw, 3, 4) ELSE SubSeq(raw, 3, 3)
                   IN unquoteLoop(Drop(raw, Len(digits) + 2),
                                  Append(ret, ParseDigits(digits, 16, 0) % 256))
    ELSE IF isOctalDigit(raw[2])
         THEN LET digits == IF Len(raw) > 3 /\ isOctalDigit(raw[3]) /\ isOctalDigit(raw[4])
                            THEN SubSeq(raw, 2, 4)
                            ELSE IF Len(raw) > 2 /\ isOctalDigit(raw[3])
                            THEN SubSeq(raw, 2, 3)
                            ELSE SubSeq(raw, 2, 2)
              IN unquoteLoop(Drop(raw, Len(digits) + 1),
                             Append(ret, ParseDigits(digits, 8, 0) % 256))
    ELSE unquoteLoop(Drop(raw, 1), Append(ret, BSLASH))

\* unquoteString(raw): raw is the text of a QUOTE_STRING token, quotes included
unquoteString(raw) ==
    IF Len(raw) < 2 THEN [panic |-> TRUE, val |-> << >>]
    ELSE unquoteLoop(SubSeq(raw, 2, Len(raw) - 1), << >>)

-----------------------------------------------------------------------------
(* Decode targets.  A Go type is a record: [kind |-> "string"],            *)
(* [kind |-> "int"], [kind |-> "slice", elem |-> type] or                  *)
(* [kind |-> "struct", fields |-> sequence of fields]; a field is          *)
(* [key, flat, multi, type], what its `kicad:"key,flat,multi"` tag and its *)
(* Go type say (decode.go, pcb.go:835-883).  A string value is its bytes,  *)
(* a slice value the sequence of its elements (nil and empty alike are     *)
(* << >>), a struct value the sequence of its field values.                *)

StringT == [kind |-> "string"]
IntT == [kind |-> "int"]
UintT == [kind |-> "uint"]
MapT(k, e) == [kind |-> "map", key |-> k, elem |-> e]

\* a map value: nil, or the function from its keys to their values
NilMap == [isNil |-> TRUE, entries |-> << >>]
MakeMap == [isNil |-> FALSE, entries |-> << >>]

\* ret.SetMapIndex(key, val)
SetMapIndex(ret, key, val) ==
    [ret EXCEPT !.entries = [k \in DOMAIN ret.entries \cup {key} |->
                                IF k = key THEN val ELSE ret.entries[k]]]
SliceT(e) == [kind |-> "slice", elem |-> e]
StructT(fields) == [kind |-> "struct", fields |-> fields]
Field(key, flat, multi, type) == [key |-> key, flat |-> flat, multi |-> multi, type |-> type]

\* reflect.New(ty).Elem(): the zero value of a type
RECURSIVE Zero(_)
Zero(ty) ==
    IF ty.kind = "int" \/ ty.kind = "uint" THEN 0
    ELSE IF ty.kind = "map" THEN NilMap
    ELSE IF ty.kind = "struct" THEN [i \in 1..Len(ty.fields) |-> Zero(ty.fields[i].type)]
    ELSE << >>

\* posFields: the indices of the fields with an empty key, in field order
RECURSIVE PosFieldsFrom(_, _)
PosFieldsFrom(ty, i) ==
    IF i > Len(ty.fields) THEN << >>
    ELSE IF ty.fields[i].key = << >> THEN << i >> \o PosFieldsFrom(ty, i + 1)
    ELSE PosFieldsFrom(ty, i + 1)

PosFields(ty) == PosFieldsFrom(ty, 1)

\* nameFields[label]: the index of the field with that key (the last such
\* field, whose map entry replaced the earlier ones), 0 for no entry
NameField(ty, label) ==
    LET hits == {i \in 1..Len(ty.fields) : ty.fields[i].key = label /\ label # << >>} IN
    IF hits = {} THEN 0 ELSE CHOOSE i \in hits : \A j \in hits : j <= i

\* strconv.ParseInt(data, 10, 64), for texts short of the 64-bit range:
\* [ok, val]
isDigit(b) == b >= 48 /\ b <= 57

ParseInt(data) ==
    LET signed == Len(data) > 0 /\ data[1] \in {43, 45}
        digits == IF signed THEN Tail(data) ELSE data
    IN
    IF Len(digits) = 0 \/ \E i \in 1..Len(digits) : ~isDigit(digits[i])
    THEN [ok |-> FALSE, val |-> 0]
    ELSE [ok |-> TRUE,
          val |-> IF signed /\ data[1] = 45 THEN 0 - ParseDigits(digits, 10, 0)
                  ELSE ParseDigits(digits, 10, 0)]

\* what a decode function returns: st is "ok" for a nil error, "error" for an
\* error, "panic" for a run-time panic; s is the scanner and v the target
\* as the function leaves them
Ret(st, s, v) == [st |-> st, s |-> s, v |-> v]

\* s.Read() with the token dropped: "consume the token"
Consume(s) == Read(s).s

\* decodeSkip  (pcb.go:547-577)
SkipRet(st, s) == [st |-> st, s |-> s]

RECURSIVE decodeSkipLoop(_, _)

\* decodeSkipToken without the nesting count: the first closing paren ends
\* the skip
decodeSkipTokenFlat(r, nest) ==
    IF r.tok.Type = "LEFT" THEN decodeSkipLoop(r.s, nest + 1)
    ELSE IF r.tok.Type = "RIGHT" THEN SkipRet("ok", r.s)
    ELSE IF r.tok.Type = "EOF" THEN SkipRet("error", r.s)
    ELSE decodeSkipLoop(r.s, nest)

\* the switch on the token read in the loop of decodeSkip
decodeSkipToken(r, nest) ==
    IF r.tok.Type = "LEFT" THEN decodeSkipLoop(r.s, nest + 1)
    ELSE IF r.tok.Type = "RIGHT"
         THEN IF nest - 1 = 0 THEN SkipRet("ok", r.s)
              ELSE decodeSkipLoop(r.s, nest - 1)
    ELSE IF r.tok.Type = "EOF" THEN SkipRet("error", r.s)
    ELSE decodeSkipLoop(r.s, nest)

decodeSkipLoop(s, nest) == decodeSkipToken(Read(s), nest)

decodeSkipPeeked(p) ==
    IF p.tok.Type = "LEFT" THEN decodeSkipLoop(p.s, 0)
    ELSE IF p.tok.Type = "RIGHT" \/ p.tok.Type = "EOF" THEN SkipRet("error", p.s)
    ELSE SkipRet("ok", Consume(p.s))

decodeSkip(s) == decodeSkipPeeked(Peek(s))

\* decodeString  (pcb.go:579-601)
decodeStringUnquoted(p, v, u) ==
    IF u.panic THEN Ret("panic", p.s, v)
    ELSE Ret("ok", Consume(p.s), u.val)

decodeStringPeeked(p, v) ==
    IF p.tok.Type = "RAW_STRING" THEN Ret("ok", Consume(p.s), p.tok.Data)
    ELSE IF p.tok.Type = "QUOTE_STRING"
         THEN decodeStringUnquoted(p, v, unquoteString(p.tok.Data))
    ELSE Ret("error", p.s, v)

decodeString(s, v) == decodeStringPeeked(Peek(s), v)

\* strings.ReplaceAll(data, "_", "")
RECURSIVE StripUnderscores(_)
StripUnderscores(data) ==
    IF Len(data) = 0 THEN << >>
    ELSE IF Head(data) = 95 THEN StripUnderscores(Tail(data))
    ELSE << Head(data) >> \o StripUnderscores(Tail(data))

\* strconv.ParseUint(token, base, 64), base 10 or 16, for texts short of
\* the 64-bit range: [ok, val]
isDigitOf(b, base) ==
    \/ isDigit(b)
    \/ base = 16 /\ ((b >= 97 /\ b <= 102) \/ (b >= 65 /\ b <= 70))

ParseUint(token, base) ==
    IF Len(token) = 0 \/ \E i \in 1..Len(token) : ~isDigitOf(token[i], base)
    THEN [ok |-> FALSE, val |-> 0]
    ELSE [ok |-> TRUE, val |-> ParseDigits(token, base, 0)]

\* the case reflect.Uint of decodeInt  (pcb.go:616-627): token is the text
\* with its underscores removed
ParseUintToken(token) ==
    IF Len(token) >= 2 /\ Take(token, 2) = << 48, 120 >>
    THEN ParseUint(Drop(token, 2), 16)
    ELSE ParseUint(token, 10)

\* decodeInt  (pcb.go:603-643)
decodeIntParsed(p, v, n) ==
    IF n.ok THEN Ret("ok", Consume(p.s), n.val) ELSE Ret("error", p.s, v)

decodeIntPeeked(p, v, ty) ==
    IF p.tok.Type # "RAW_STRING" THEN Ret("error", p.s, v)
    ELSE IF ty.kind = "int" THEN decodeIntParsed(p, v, ParseInt(p.tok.Data))
    ELSE decodeIntParsed(p, v, ParseUintToken(StripUnderscores(p.tok.Data)))

decodeInt(s, v, ty) == decodeIntPeeked(Peek(s), v, ty)

RECURSIVE decodeIntoValue(_, _, _)
RECURSIVE decodeSequenceIntoSliceLoop(_, _, _, _, _)
RECURSIVE decodeSequenceIntoStruct(_, _, _, _)
RECURSIVE decodeStructLoop(_, _, _, _, _)

\* decodeSequenceIntoSlice  (pcb.go:709-736); ret is the slice being built,
\* e what decodeIntoValue returned for the element
decodeSliceElem(e, v, ty, endType, ret) ==
    IF e.st # "ok" THEN Ret(e.st, e.s, v)
    ELSE decodeSequenceIntoSliceLoop(e.s, v, ty, endType, Append(ret, e.v))

\* the loop body of decodeSequenceIntoSlice taking EOF for the end token
decodeSlicePeekedElemLenient(p, v, ty, endType, ret) ==
    IF p.tok.Type \in {endType, "EOF"} THEN Ret("ok", p.s, ret)
    ELSE decodeSliceElem(decodeIntoValue(p.s, Zero(ty.elem), ty.elem),
                         v, ty, endType, ret)

decodeSlicePeekedElem(p, v, ty, endType, ret) ==
    IF p.tok.Type = endType THEN Ret("ok", p.s, ret)
    ELSE IF p.tok.Type = "EOF" THEN Ret("error", p.s, v)
    ELSE decodeSliceElem(decodeIntoValue(p.s, Zero(ty.elem), ty.elem),
                         v, ty, endType, ret)

decodeSequenceIntoSliceLoop(s, v, ty, endType, ret) ==
    decodeSlicePeekedElem(Peek(s), v, ty, endType, ret)

decodeSequenceIntoSlice(s, v, ty, endType) ==
    decodeSequenceIntoSliceLoop(s, v, ty, endType, v)

\* decodeSlice leaving the closing paren unread
decodeSliceCloseUnread(r) == r

\* decodeSlice  (pcb.go:689-707): the target is set to an empty slice
\* before the elements are decoded
decodeSliceClose(r) ==
    IF r.st # "ok" THEN r ELSE Ret("ok", Consume(r.s), r.v)

decodeSlicePeeked(p, v, ty) ==
    IF p.tok.Type # "LEFT" THEN Ret("error", p.s, v)
    ELSE decodeSliceClose(decodeSequenceIntoSlice(Consume(p.s), << >>, ty, "RIGHT"))

decodeSlice(s, v, ty) == decodeSlicePeeked(Peek(s), v, ty)

\* decodeStruct  (pcb.go:804-823): the target is set to its zero value
\* before the fields are decoded into it
decodeStructClose(r) ==
    IF r.st # "ok" THEN Ret(r.st, r.s, r.v) ELSE Ret("ok", Consume(r.s), r.v)

decodeStructPeeked(p, v, ty) ==
    IF p.tok.Type # "LEFT" THEN Ret("error", p.s, v)
    ELSE decodeStructClose(decodeSequenceIntoStruct(Consume(p.s), Zero(ty), ty, "RIGHT"))

decodeStruct(s, v, ty) == decodeStructPeeked(Peek(s), v, ty)

\* decodeMap  (pcb.go:738-802): ret is the map being built, stored in the
\* target when the closing paren is reached
RECURSIVE decodeMapLoop(_, _, _, _)

decodeMapEntryClose(p, key, val, v, ty, ret) ==
    IF p.tok.Type # "RIGHT" THEN Ret("error", p.s, v)
    ELSE decodeMapLoop(Consume(p.s), v, ty, SetMapIndex(ret, key, val))

decodeMapVal(e, key, v, ty, ret) ==
    IF e.st # "ok" THEN Ret(e.st, e.s, v)
    ELSE decodeMapEntryClose(Peek(e.s), key, e.v, v, ty, ret)

decodeMapValPeeked(p, key, v, ty, ret) ==
    IF p.tok.Type = "EOF" THEN Ret("error", p.s, v)
    ELSE decodeMapVal(decodeIntoValue(p.s, Zero(ty.elem), ty.elem), key, v, ty, ret)

decodeMapKeyPeeked(p, key, v, ty, ret) ==
    IF p.tok.Type = "RIGHT" THEN Ret("error", p.s, v)
    ELSE decodeMapValPeeked(Peek(p.s), key, v, ty, ret)

\* decodeMapKey storing the entries decoded so far when the key fails
decodeMapKeyPartial(k, v, ty, ret) ==
    IF k.st # "ok" THEN Ret(k.st, k.s, ret)
    ELSE decodeMapKeyPeeked(Peek(k.s), k.v, v, ty, ret)

decodeMapKey(k, v, ty, ret) ==
    IF k.st # "ok" THEN Ret(k.st, k.s, v)
    ELSE decodeMapKeyPeeked(Peek(k.s), k.v, v, ty, ret)

decodeMapNext(p, v, ty, ret) ==
    IF p.tok.Type = "RIGHT" THEN Ret("ok", Consume(p.s), ret)
    ELSE IF p.tok.Type = "EOF" THEN Ret("error", p.s, v)
    ELSE IF p.tok.Type # "LEFT" THEN Ret("error", p.s, v)
    ELSE decodeMapKey(decodeIntoValue(Consume(p.s), Zero(ty.key), ty.key), v, ty, ret)

decodeMapLoop(s, v, ty, ret) == decodeMapNext(Peek(s), v, ty, ret)

decodeMapPeeked(p, v, ty) ==
    IF p.tok.Type # "LEFT" THEN Ret("error", p.s, v)
    ELSE decodeMapLoop(Consume(p.s), v, ty, MakeMap)

decodeMap(s, v, ty) == decodeMapPeeked(Peek(s), v, ty)

\* decodeIntoValue  (pcb.go:517-542)
decodeIntoValue(s, v, ty) ==
    IF ty.kind = "string" THEN decodeString(s, v)
    ELSE IF ty.kind = "int" \/ ty.kind = "uint" THEN decodeInt(s, v, ty)
    ELSE IF ty.kind = "map" THEN decodeMap(s, v, ty)
    ELSE IF ty.kind = "slice" THEN decodeSlice(s, v, ty)
    ELSE IF ty.kind = "struct" THEN decodeStruct(s, v, ty)
    ELSE Ret("error", s, v)

\* the value decoded for one field  (pcb.go:934-971): the element type of a
\* multi field, the field's type otherwise; flat decodes without the tuple
FieldValueType(f) == IF f.multi THEN f.type.elem ELSE f.type

DropGhost(r) == Ret(r.st, r.s, r.v)

decodeFieldValue(s, f) ==
    IF f.flat
    THEN IF FieldValueType(f).kind = "struct"
         THEN DropGhost(decodeSequenceIntoStruct(s, Zero(FieldValueType(f)),
                                                 FieldValueType(f), "RIGHT"))
         ELSE IF FieldValueType(f).kind = "slice"
         THEN decodeSequenceIntoSlice(s, Zero(FieldValueType(f)), FieldValueType(f), "RIGHT")
         ELSE Ret("panic", s, Zero(FieldValueType(f)))
    ELSE decodeIntoValue(s, Zero(FieldValueType(f)), FieldValueType(f))

\* what decodeSequenceIntoStruct returns: next to st, s and v, the
\* positional fields still unfilled (pos) and whether the loop was left at
\* the end token (brk)
StructRet(st, s, v, posFields, brk) ==
    [st |-> st, s |-> s, v |-> v, pos |-> posFields, brk |-> brk]

\* InsufficientPositional looking at the first remaining field only
InsufficientPositionalFirst(ty, posFields) ==
    Len(posFields) > 0 /\ ~ty.fields[posFields[1]].flat

\* the check after the loop  (pcb.go:992-1004)
InsufficientPositional(ty, posFields) ==
    Len(posFields) > 0 /\ (Len(posFields) # 1 \/ ~ty.fields[posFields[1]].flat)

\* the end of one iteration, from the label Done  (pcb.go:979-990);
\* c is the token read where a closing paren is needed
decodeStructClosed(c, v, ty, endType, posFields) ==
    IF c.tok.Type # "RIGHT" THEN StructRet("error", c.s, v, posFields, FALSE)
    ELSE decodeStructLoop(c.s, v, ty, endType, posFields)

decodeStructDone(s, v, ty, endType, posFields, needClose) ==
    IF needClose THEN decodeStructClosed(Read(s), v, ty, endType, posFields)
    ELSE decodeStructLoop(s, v, ty, endType, posFields)

\* SetField with a multi field holding the last value only
SetFieldReplace(v, fieldDef, multi, val) ==
    IF multi THEN [v EXCEPT ![fieldDef] = << val >>]
    ELSE [v EXCEPT ![fieldDef] = val]

\* SetField with a single field keeping the value it already holds
SetFieldOnce(v, fieldDef, multi, val) ==
    IF multi THEN [v EXCEPT ![fieldDef] = Append(v[fieldDef], val)]
    ELSE v

\* the field's value stored  (pcb.go:973-977)
SetField(v, fieldDef, multi, val) ==
    IF multi THEN [v EXCEPT ![fieldDef] = Append(v[fieldDef], val)]
    ELSE [v EXCEPT ![fieldDef] = val]

\* one field of the struct, fieldDef chosen  (pcb.go:926-977);
\* fieldDef = 0 is the nil *Field of an unknown label
decodeStructSkipped(k, v, ty, endType, posFields, needClose) ==
    IF k.st # "ok" THEN StructRet(k.st, k.s, v, posFields, FALSE)
    ELSE decodeStructDone(k.s, v, ty, endType, posFields, needClose)

decodeStructDecoded(r, v, ty, endType, posFields, fieldDef, needClose) ==
    IF r.st # "ok" THEN StructRet(r.st, r.s, v, posFields, FALSE)
    ELSE decodeStructDone(r.s, SetField(v, fieldDef, ty.fields[fieldDef].multi, r.v),
                          ty, endType, posFields, needClose)

decodeStructField(s, v, ty, endType, posFields, fieldDef, needClose) ==
    IF fieldDef = 0
    THEN decodeStructSkipped(decodeSkip(s), v, ty, endType, posFields, needClose)
    ELSE decodeStructDecoded(decodeFieldValue(s, ty.fields[fieldDef]),
                             v, ty, endType, posFields, fieldDef, needClose)

\* the loop of decodeSequenceIntoStruct  (pcb.go:885-990)
decodeStructLabel(label, v, ty, endType, posFields) ==
    IF label.tok.Type # "RAW_STRING"
    THEN StructRet("error", label.s, v, posFields, FALSE)
    ELSE decodeStructField(Consume(label.s), v, ty, endType, posFields,
                           NameField(ty, label.tok.Data), TRUE)

decodeStructNext(p, v, ty, endType, posFields) ==
    IF p.tok.Type = endType
    THEN StructRet(IF InsufficientPositional(ty, posFields) THEN "error" ELSE "ok",
                   p.s, v, posFields, TRUE)
    ELSE IF p.tok.Type = "EOF" THEN StructRet("error", p.s, v, posFields, FALSE)
    ELSE IF Len(posFields) > 0
    THEN decodeStructField(p.s, v, ty, endType, Tail(posFields), Head(posFields), FALSE)
    ELSE IF p.tok.Type # "LEFT" THEN StructRet("error", p.s, v, posFields, FALSE)
    ELSE decodeStructLabel(Peek(Consume(p.s)), v, ty, endType, posFields)

decodeStructLoop(s, v, ty, endType, posFields) ==
    decodeStructNext(Peek(s), v, ty, endType, posFields)

\* the checks on the tags, made before the first token is looked at
\* (pcb.go:862-875)
ValidTags(ty) ==
    \A i \in 1..Len(ty.fields) :
        /\ ty.fields[i].multi => ty.fields[i].type.kind = "slice"
        /\ ty.fields[i].flat => FieldValueType(ty.fields[i]).kind \in {"slice", "struct"}

\* decodeSequenceIntoStruct  (pcb.go:825-1005)
decodeSequenceIntoStruct(s, v, ty, endType) ==
    IF ~ValidTags(ty) THEN StructRet("error", s, v, << >>, FALSE)
    ELSE decodeStructLoop(s, v, ty, endType, PosFields(ty))

\* what Decode returns: at is the statement at which the call returned
DecodeRet(st, at, s, v, posFields, brk) ==
    [st |-> st, at |-> at, s |-> s, v |-> v, pos |-> posFields, brk |-> brk]

\* DecodeFields looking at the token after the closing paren and taking
\* anything but the end of the stream for an error
DecodeFieldsToEOF(r1) ==
    IF r1.st # "ok" THEN DecodeRet(r1.st, "fields", r1.s, r1.v, r1.pos, r1.brk)
    ELSE IF Peek(Consume(r1.s)).tok.Type # "EOF"
    THEN DecodeRet("error", "done", Peek(Consume(r1.s)).s, r1.v, r1.pos, r1.brk)
    ELSE DecodeRet("ok", "done", Peek(Consume(r1.s)).s, r1.v, r1.pos, r1.brk)

\* Decode(r, typeName, t), t a pointer to a value v of type ty
\* (pcb.go:471-506)
DecodeFields(r1) ==
    IF r1.st # "ok" THEN DecodeRet(r1.st, "fields", r1.s, r1.v, r1.pos, r1.brk)
    ELSE DecodeRet("ok", "done", Consume(r1.s), r1.v, r1.pos, r1.brk)

\* DecodeTypeTok without the comparison of the name
DecodeTypeTokAnyName(typeTok, name, v, ty) ==
    IF typeTok.tok.Type # "RAW_STRING"
    THEN DecodeRet("error", "typeTok", typeTok.s, v, << >>, FALSE)
    ELSE DecodeFields(decodeSequenceIntoStruct(typeTok.s, v, ty, "RIGHT"))

\* DecodeTypeTok comparing the name once the fields are decoded
DecodeNameLate(r, typeTok, name) ==
    IF typeTok.tok.Data # name
    THEN DecodeRet("error", "typeName", r.s, r.v, << >>, FALSE)
    ELSE r

DecodeTypeTokLate(typeTok, name, v, ty) ==
    IF typeTok.tok.Type # "RAW_STRING"
    THEN DecodeRet("error", "typeTok", typeTok.s, v, << >>, FALSE)
    ELSE DecodeNameLate(DecodeFields(decodeSequenceIntoStruct(typeTok.s, v, ty, "RIGHT")),
                        typeTok, name)

DecodeTypeTok(typeTok, name, v, ty) ==
    IF typeTok.tok.Type # "RAW_STRING"
    THEN DecodeRet("error", "typeTok", typeTok.s, v, << >>, FALSE)
    ELSE IF typeTok.tok.Data # name
    THEN DecodeRet("error", "typeName", typeTok.s, v, << >>, FALSE)
    ELSE DecodeFields(decodeSequenceIntoStruct(typeTok.s, v, ty, "RIGHT"))

DecodeOpen(open, name, v, ty) ==
    IF open.tok.Type # "LEFT"
    THEN DecodeRet("error", "open", open.s, v, << >>, FALSE)
    ELSE DecodeTypeTok(Read(open.s), name, v, ty)

Decode(r, name, v, ty) ==
    IF ty.kind # "struct"
    THEN DecodeRet("error", "target", NewScanner(r), v, << >>, FALSE)
    ELSE DecodeOpen(Read(NewScanner(r)), name, v, ty)

\* DecodeSimple(r, t)  (pcb.go:512-515)
DecodeSimple(r, v, ty) == decodeIntoValue(NewScanner(r), v, ty)

-----------------------------------------------------------------------------
(* Bounds and input sets *)

MaxScanLen == 4     \* scanner: the longest input
MaxLexLen == 3      \* lexing: the longest input
MaxStrLen == 3      \* Writer: the longest string quoted
MaxTailLen == 2     \* literal grammar: the most bytes around an escape
MaxItems == 3       \* Decode: the most items in a document

SeqsUpTo(S, n) == UNION {[1..k -> S] : k \in 0..n}

Idle == [st |-> "none"]

\* the variables a specification does not use, at rest
NoHistory ==
    /\ lastOp = "init" /\ lastTok = EOFToken
    /\ prevOp = "init" /\ prevTok = EOFToken
NoLex == ins = << >> /\ pos = 0 /\ toksA = << >> /\ toksB = << >>
NoQuote ==
    str = << >> /\ writer = NewWriter /\ unq = Idle /\ lit = Idle /\ wlog = Idle
NoDecode ==
    /\ doc = Idle /\ typeName = << >> /\ shape = StringT
    /\ target0 = << >> /\ target = << >> /\ result = Idle

-----------------------------------------------------------------------------
(* The scanner driven by a caller: any sequence of Peek and Read *)

ScanAlphabet == {LPAREN, RPAREN, DQUOTE, BSLASH, 97, SPC}

InitScan ==
    /\ input \in SeqsUpTo(ScanAlphabet, MaxScanLen)
    /\ scanner = NewScanner(input)
    /\ NoHistory /\ NoLex /\ NoQuote /\ NoDecode

DoPeek ==
    /\ lastOp \in {"init", "Peek", "Read"}
    /\ LET r == Peek(scanner) IN
       /\ scanner' = r.s
       /\ lastTok' = r.tok
    /\ lastOp' = "Peek"
    /\ prevOp' = lastOp /\ prevTok' = lastTok
    /\ UNCHANGED << input, lexVars, quoteVars, decodeVars >>

DoRead ==
    /\ lastOp \in {"init", "Peek", "Read"}
    /\ LET r == Read(scanner) IN
       /\ scanner' = r.s
       /\ lastTok' = r.tok
    /\ lastOp' = "Read"
    /\ prevOp' = lastOp /\ prevTok' = lastTok
    /\ UNCHANGED << input, lexVars, quoteVars, decodeVars >>

NextScan == DoPeek \/ DoRead

SpecScan == InitScan /\ [][NextScan]_vars

\* C4: after a Peek, the next call, be it another Peek or the Read, returns
\* the token that Peek returned (same type, same text), whatever the token
\* type, INVALID and EOF included.
C4_PeekIdempotent == prevOp = "Peek" => lastTok = prevTok

RECURSIVE Protected(_, _)
\* the byte at i of a quoted atom is protected: the byte before it is a
\* backslash that is not itself protected (the opening quote is byte 1)
Protected(s, i) ==
    IF i <= 2 THEN FALSE
    ELSE s[i - 1] = BSLASH /\ ~Protected(s, i - 1)

\* the positions of the quotes that can close the atom opened at byte 1
ClosingQuotes(s) == {i \in 2..Len(s) : s[i] = DQUOTE /\ ~Protected(s, i)}

\* the first of them
ClosingQuote(s) == CHOOSE i \in ClosingQuotes(s) : \A j \in ClosingQuotes(s) : i <= j

\* the first call on a stream that opens with a quote
FirstCallOnQuote ==
    /\ prevOp = "init" /\ lastOp \in {"Peek", "Read"}
    /\ input # << >> /\ input[1] = DQUOTE

\* C19: a quote starts a quoted atom that ends at the first following quote
\* not protected by a backslash, a backslash protecting exactly the next
\* byte; the QUOTE_STRING token's text is the bytes from the opening to the
\* closing quote, both included, unchanged.
C19_QuotedAtomExtent ==
    (FirstCallOnQuote /\ ClosingQuotes(input) # {})
    => lastTok = Token("QUOTE_STRING", Take(input, ClosingQuote(input)))

\* the atom "\"" : the quote after the backslash does not end it
C19_Witness ==
    /\ FirstCallOnQuote
    /\ input = << DQUOTE, BSLASH, DQUOTE, DQUOTE >>
    /\ lastTok = Token("QUOTE_STRING", input)

\* C20: when the input ends inside a quoted atom, with no unprotected
\* closing quote before the end of the stream, the scanner's next token is
\* INVALID, not a quoted atom, a raw atom or the end of the stream.
C20_UnterminatedIsInvalid ==
    (FirstCallOnQuote /\ ClosingQuotes(input) = {})
    => lastTok.Type = "INVALID"

\* the stream "a\" ends inside the atom: its last quote is protected
C20_Witness ==
    /\ FirstCallOnQuote
    /\ input = << DQUOTE, 97, BSLASH, DQUOTE >>
    /\ lastTok.Type = "INVALID"

\* C21: once Read or Peek has returned EOF, the next Read or Peek returns
\* EOF with empty text, and so does every later one: EOF is never consumed
\* and no other token follows it.
C21_EOFSticky ==
    (prevOp \in {"Peek", "Read"} /\ prevTok.Type = "EOF")
    => lastTok = EOFToken

\* after the atom of "a" was read, Read returned EOF and Peek returns it again
C21_Witness ==
    /\ input = << 97 >>
    /\ prevOp = "Read" /\ prevTok = EOFToken
    /\ lastOp = "Peek" /\ lastTok = EOFToken

-----------------------------------------------------------------------------
(* Lexing a stream and the same stream with an irrelevant run inserted     *)
(* where a token ended                                                     *)

LexAlphabet == {LPAREN, RPAREN, DQUOTE, 97, SPC, HASH, LF}

\* runs of the whitespace bytes, and a comment through its end of line
IrrelevantRuns ==
    {<< SPC >>, << TAB >>, << CR >>, << LF >>, << NUL >>, << SPC, LF >>,
     << HASH, 99, LF >>}

Insert(s, at, run) == Take(s, at) \o run \o Drop(s, at)

InitLex ==
    /\ input \in SeqsUpTo(LexAlphabet, MaxLexLen)
    /\ pos \in TokenEnds(input)
    /\ ins \in IrrelevantRuns
    /\ toksA = << >> /\ toksB = << >>
    /\ scanner = NewScanner(input)
    /\ NoHistory /\ NoQuote /\ NoDecode

DoTokenize ==
    /\ lastOp = "init"
    /\ toksA' = TokensOf(input)
    /\ toksB' = TokensOf(Insert(input, pos, ins))
    /\ lastOp' = "Tokenize"
    /\ UNCHANGED << input, scanner, lastTok, prevOp, prevTok, ins, pos,
                    quoteVars, decodeVars >>

NextLex == DoTokenize

SpecLex == InitLex /\ [][NextLex]_vars

\* C5: the token sequence of a stream is that of the same stream with a run
\* of whitespace bytes (space, tab, CR, LF, NUL) or a # comment through its
\* end of line inserted between two tokens.
C5_IrrelevantInserted == lastOp = "Tokenize" => toksB = toksA

-----------------------------------------------------------------------------
(* Lexing a stream that its reader delivers in reads of a given size *)

MaxChunkLen == 4

ChunkAlphabet == {97, SPC, LF, HASH, LPAREN, DQUOTE}

InitChunk ==
    /\ input \in SeqsUpTo(ChunkAlphabet, MaxChunkLen)
    /\ pos \in 1..MaxChunkLen
    /\ ins = << >>
    /\ toksA = << >> /\ toksB = << >>
    /\ scanner = NewScannerChunked(input, pos)
    /\ NoHistory /\ NoQuote /\ NoDecode

DoTokenizeChunked ==
    /\ lastOp = "init"
    /\ toksA' = TokensOf(input)
    /\ toksB' = ReadAll(scanner, Len(input), << >>, {0}).toks
    /\ lastOp' = "TokenizeChunked"
    /\ UNCHANGED << input, scanner, lastTok, prevOp, prevTok, ins, pos,
                    quoteVars, decodeVars >>

SpecChunk == InitChunk /\ [][DoTokenizeChunked]_vars

\* C28: the tokens read from a stream are the same whether its reader
\* delivers the bytes in one read or in reads of any smaller size.
C28_ChunkingIndependent == lastOp = "TokenizeChunked" => toksB = toksA

-----------------------------------------------------------------------------
(* Quoting a string with the Writer and reading it back *)

QuoteAlphabet == {97, 110, LF, CR, TAB, VT, DQUOTE, BSLASH}

InitQuote ==
    /\ str \in SeqsUpTo(QuoteAlphabet, MaxStrLen)
    /\ writer = NewWriter /\ unq = Idle /\ lit = Idle /\ wlog = Idle
    /\ input = << >> /\ scanner = NewScanner(<< >>)
    /\ NoHistory /\ NoLex /\ NoDecode

DoWriteQuoteString ==
    /\ lastOp = "init"
    /\ writer' = WriteQuoteString(writer, str).w
    /\ lastOp' = "WriteQuoteString"
    /\ UNCHANGED << str, unq, lit, wlog, input, scanner, lastTok, prevOp, prevTok,
                    lexVars, decodeVars >>

DoUnquote ==
    /\ lastOp = "WriteQuoteString"
    /\ unq' = unquoteString(writer.out)
    /\ lastOp' = "unquoteString"
    /\ UNCHANGED << str, writer, lit, wlog, input, scanner, lastTok, prevOp, prevTok,
                    lexVars, decodeVars >>

NextQuote == DoWriteQuoteString \/ DoUnquote

SpecQuote == InitQuote /\ [][NextQuote]_vars

\* C2: unquoteString applied to the text WriteQuoteString emitted for a
\* string of ordinary bytes, control characters, double quotes and
\* backslashes returns that string.
C2_QuoteRoundTrip == lastOp = "unquoteString" => ~unq.panic /\ unq.val = str

-----------------------------------------------------------------------------
(* DecodeSimple into a string, of one quoted atom holding a two-byte       *)
(* escape: the atom is " pre \ c post "                                    *)

PreAlphabet == {97, 110}
PostAlphabet == {97, 110, BSLASH}
EscapeBytes == SimpleEscapeLetters \cup {BSLASH, DQUOTE}

Quoted(s) == << DQUOTE >> \o s \o << DQUOTE >>

InitSimple ==
    /\ lit \in [pre : SeqsUpTo(PreAlphabet, MaxTailLen),
                c : EscapeBytes,
                post : SeqsUpTo(PostAlphabet, MaxTailLen)]
    /\ input = Quoted(lit.pre \o << BSLASH, lit.c >> \o lit.post)
    /\ scanner = NewScanner(input)
    /\ str = << >> /\ writer = NewWriter /\ unq = Idle /\ wlog = Idle
    /\ doc = Idle /\ typeName = << >> /\ shape = StringT
    /\ target0 = << >> /\ target = << >> /\ result = Idle
    /\ NoHistory /\ NoLex

DoDecodeSimple ==
    /\ lastOp = "init"
    /\ LET r == DecodeSimple(input, target, shape) IN
       /\ scanner' = r.s
       /\ target' = IF r.st = "panic" THEN target ELSE r.v
       /\ result' = [st |-> r.st]
    /\ lastOp' = "DecodeSimple"
    /\ UNCHANGED << input, lastTok, prevOp, prevTok, lexVars, quoteVars,
                    doc, typeName, shape, target0 >>

NextSimple == DoDecodeSimple

SpecSimple == InitSimple /\ [][NextSimple]_vars

\* the character each of the nine two-byte escapes stands for
EscValue(c) ==
    IF c = 110 THEN LF
    ELSE IF c = 114 THEN CR
    ELSE IF c = 116 THEN TAB
    ELSE IF c = 118 THEN VT
    ELSE IF c = 97 THEN BEL
    ELSE IF c = 98 THEN BSP
    ELSE IF c = 102 THEN FF
    ELSE c

\* the input is one quoted atom, and so is " post "
OneQuotedAtom(r) == TokensOf(r) = << Token("QUOTE_STRING", r), EOFToken >>

\* C3: a quoted atom " pre \ c post ", c one of n r t v a b f \ ", decodes
\* to pre, the one character the escape stands for, and what post decodes
\* to on its own.
C3_TwoByteEscapes ==
    (/\ lastOp = "DecodeSimple"
     /\ OneQuotedAtom(input)
     /\ OneQuotedAtom(Quoted(lit.post))
     /\ ~unquoteString(Quoted(lit.post)).panic)
    => /\ result.st = "ok"
       /\ target = lit.pre \o << EscValue(lit.c) >>
                           \o unquoteString(Quoted(lit.post)).val

\* C25: for every text the Scanner hands out as a QUOTE_STRING token, also
\* one that ends with an escaped backslash right before the closing quote,
\* unquoteString returns without indexing past the end of the text: it does
\* not panic.
C25_UnquoteInRange ==
    (lastOp = "DecodeSimple" /\ OneQuotedAtom(input)) => result.st # "panic"

-----------------------------------------------------------------------------
(* SpecHex: DecodeSimple into a string of the quoted atom " pre \x post "  *)

MaxHexLen == 3      \* the most bytes after \x

\* 0 4 a f A F g x
HexAlphabet == {48, 52, 97, 102, 65, 70, 103, 120}

InitHex ==
    /\ lit \in [pre : SeqsUpTo(PreAlphabet, 1),
                c : {120},
                post : SeqsUpTo(HexAlphabet, MaxHexLen)]
    /\ input = Quoted(lit.pre \o << BSLASH, lit.c >> \o lit.post)
    /\ scanner = NewScanner(input)
    /\ str = << >> /\ writer = NewWriter /\ unq = Idle /\ wlog = Idle
    /\ doc = Idle /\ typeName = << >> /\ shape = StringT
    /\ target0 = << >> /\ target = << >> /\ result = Idle
    /\ NoHistory /\ NoLex

SpecHex == InitHex /\ [][DoDecodeSimple]_vars

\* a hex digit as the claim lists them: 0-9, a-f, A-F
ClaimedHexDigit(b) ==
    (b >= 48 /\ b <= 57) \/ (b >= 97 /\ b <= 102) \/ (b >= 65 /\ b <= 70)

\* what \x followed by post decodes to, as claimed
ClaimedHex(post) ==
    IF Len(post) >= 2 /\ ClaimedHexDigit(post[1]) /\ ClaimedHexDigit(post[2])
    THEN << 16 * DigitValue(post[1]) + DigitValue(post[2]) >> \o Drop(post, 2)
    ELSE IF Len(post) >= 1 /\ ClaimedHexDigit(post[1])
    THEN << DigitValue(post[1]) >> \o Drop(post, 1)
    ELSE << BSLASH, 120 >> \o post

\* C26: \x consumes two hex digits when the two bytes after it are hex
\* digits (0-9, a-f, A-F) and one otherwise, emits the one byte of that
\* value and goes on at the byte after the digits; \x followed by no hex
\* digit is emitted as a backslash and an x.
C26_HexEscape ==
    lastOp = "DecodeSimple"
    => result.st = "ok" /\ target = lit.pre \o ClaimedHex(lit.post)

-----------------------------------------------------------------------------
(* Decode of a document: ( name item ... ), the items named tuples and     *)
(* bare atoms.  An S-expression value is an atom or a tuple of values.     *)

Atom(text) == [kind |-> "atom", text |-> text, vals |-> << >>]
Tuple(vals) == [kind |-> "tuple", text |-> << >>, vals |-> vals]
Named(label, body) == Tuple(<< Atom(label) >> \o body)

\* an item of a document: a value, whose last paren may be missing
Item(val) == [val |-> val, closed |-> TRUE]
Unclosed(val) == [val |-> val, closed |-> FALSE]

\* the text of a value, its parts one space apart
RECURSIVE RenderValue(_)
RECURSIVE RenderSeq(_)
RenderValue(val) ==
    IF val.kind = "atom" THEN val.text
    ELSE << LPAREN >> \o RenderSeq(val.vals) \o << RPAREN >>

RenderSeq(vals) ==
    IF vals = << >> THEN << >>
    ELSE RenderValue(Head(vals))
         \o (IF Len(vals) = 1 THEN << >> ELSE << SPC >> \o RenderSeq(Tail(vals)))

RenderItem(it) ==
    IF it.closed THEN RenderValue(it.val)
    ELSE Take(RenderValue(it.val), Len(RenderValue(it.val)) - 1)

RECURSIVE RenderItems(_)
RenderItems(items) ==
    IF items = << >> THEN << >>
    ELSE << SPC >> \o RenderItem(Head(items)) \o RenderItems(Tail(items))

\* the text of a document [head, items, closed]
Render(d) ==
    d.head \o RenderItems(d.items) \o (IF d.closed THEN << RPAREN >> ELSE << >>)

\* the target types, as the struct tags declare them
\*   Net { Index int `kicad:""`; Name string `kicad:""` }
\*   Doc { V int `kicad:"v"`; M []string `kicad:"m,multi"`;
\*         N []Net `kicad:"n,multi,flat"` }
\*   P1 { A string `kicad:""`; B []string `kicad:",flat"` }
\*   P2 { A string `kicad:""`; B string `kicad:""` }
\*   P3 { A []string `kicad:",flat"` }
\*   P4 { A []string `kicad:",flat"`; B string `kicad:""` }
NetT ==
    StructT(<< Field(<< >>, FALSE, FALSE, IntT), Field(<< >>, FALSE, FALSE, StringT) >>)
DocT ==
    StructT(<< Field(<< 118 >>, FALSE, FALSE, IntT),
               Field(<< 109 >>, FALSE, TRUE, SliceT(StringT)),
               Field(<< 110 >>, TRUE, TRUE, SliceT(NetT)) >>)
P1T ==
    StructT(<< Field(<< >>, FALSE, FALSE, StringT),
               Field(<< >>, TRUE, FALSE, SliceT(StringT)) >>)
P2T ==
    StructT(<< Field(<< >>, FALSE, FALSE, StringT),
               Field(<< >>, FALSE, FALSE, StringT) >>)
P3T == StructT(<< Field(<< >>, TRUE, FALSE, SliceT(StringT)) >>)
P4T ==
    StructT(<< Field(<< >>, TRUE, FALSE, SliceT(StringT)),
               Field(<< >>, FALSE, FALSE, StringT) >>)

\*   XY { X int `kicad:"x"`; Y int `kicad:"y"` }
\*   Single { V int `kicad:"v"`; S XY `kicad:"s,flat"` }
XYT ==
    StructT(<< Field(<< 120 >>, FALSE, FALSE, IntT),
               Field(<< 121 >>, FALSE, FALSE, IntT) >>)
SingleT ==
    StructT(<< Field(<< 118 >>, FALSE, FALSE, IntT),
               Field(<< 115 >>, TRUE, FALSE, XYT) >>)

\* a Doc a caller decoded into before
UsedDoc == << 7, << << 122 >> >>, << >> >>

\* items: (v 1) (v x) (m a) (m b) (n 1 a) (n 1) a, the unknown (u x)
\* (u (x (y))) (u x y) (u), and (m a with its paren missing
NamedItems ==
    {Item(Named(<< 118 >>, << Atom(<< 49 >>) >>)),
     Item(Named(<< 118 >>, << Atom(<< 120 >>) >>)),
     Item(Named(<< 109 >>, << Atom(<< 97 >>) >>)),
     Item(Named(<< 109 >>, << Atom(<< 98 >>) >>)),
     Item(Named(<< 110 >>, << Atom(<< 49 >>), Atom(<< 97 >>) >>)),
     Item(Named(<< 110 >>, << Atom(<< 49 >>) >>)),
     Item(Atom(<< 97 >>)),
     Item(Named(<< 117 >>, << Atom(<< 120 >>) >>)),
     Item(Named(<< 117 >>,
                << Tuple(<< Atom(<< 120 >>), Tuple(<< Atom(<< 121 >>) >>) >>) >>)),
     Item(Named(<< 117 >>, << Atom(<< 120 >>), Atom(<< 121 >>) >>)),
     Item(Named(<< 117 >>, << >>)),
     Unclosed(Named(<< 109 >>, << Atom(<< 97 >>) >>))}

AtomItems == {Item(Atom(<< 97 >>)), Item(Atom(<< 98 >>))}

\* heads: (d  (e  ("d"  d  (  and nothing
Heads ==
    {<< LPAREN, 100 >>, << LPAREN, 101 >>, << LPAREN, DQUOTE, 100, DQUOTE >>,
     << 100 >>, << LPAREN >>, << >>}

\* documents decoded into a fresh Doc
DocCases ==
    /\ doc \in [head : {<< LPAREN, 100 >>},
                items : SeqsUpTo(NamedItems, MaxItems),
                closed : BOOLEAN]
    /\ typeName = << 100 >> /\ shape = DocT /\ target0 = Zero(DocT)

\* every head, under either expected name, into a fresh or a used Doc
HeadCases ==
    /\ doc \in [head : Heads, items : SeqsUpTo(NamedItems, 1), closed : BOOLEAN]
    /\ typeName \in {<< 100 >>, << 101 >>}
    /\ shape = DocT /\ target0 \in {Zero(DocT), UsedDoc}

\* documents of atoms decoded into structs of positional fields
PositionalCases ==
    /\ doc \in [head : {<< LPAREN, 100 >>},
                items : SeqsUpTo(AtomItems, MaxItems),
                closed : BOOLEAN]
    /\ typeName = << 100 >> /\ shape \in {P1T, P2T, P3T, P4T}
    /\ target0 = Zero(shape)

\* items of a Single: (v 1) (v 2) (s (x 1)) (s (y 2)) (s (x 3) (y 4)) (s)
SingleItems ==
    {Item(Named(<< 118 >>, << Atom(<< 49 >>) >>)),
     Item(Named(<< 118 >>, << Atom(<< 50 >>) >>)),
     Item(Named(<< 115 >>, << Named(<< 120 >>, << Atom(<< 49 >>) >>) >>)),
     Item(Named(<< 115 >>, << Named(<< 121 >>, << Atom(<< 50 >>) >>) >>)),
     Item(Named(<< 115 >>, << Named(<< 120 >>, << Atom(<< 51 >>) >>),
                              Named(<< 121 >>, << Atom(<< 52 >>) >>) >>)),
     Item(Named(<< 115 >>, << >>))}

\* documents of single named fields, repeated or not, into a fresh or a
\* used Single
SingleCases ==
    /\ doc \in [head : {<< LPAREN, 100 >>},
                items : SeqsUpTo(SingleItems, MaxItems),
                closed : BOOLEAN]
    /\ typeName = << 100 >> /\ shape = SingleT
    /\ target0 \in {Zero(SingleT), << 7, << 8, 9 >> >>}

InitDecode ==
    /\ DocCases \/ HeadCases \/ PositionalCases \/ SingleCases
    /\ input = Render(doc)
    /\ scanner = NewScanner(input)
    /\ target = target0 /\ result = Idle
    /\ NoHistory /\ NoLex /\ NoQuote

DoDecode ==
    /\ lastOp = "init"
    /\ LET r == Decode(input, typeName, target, shape) IN
       /\ scanner' = r.s
       /\ target' = r.v
       /\ result' = [st |-> r.st, at |-> r.at, pos |-> r.pos, brk |-> r.brk]
    /\ lastOp' = "Decode"
    /\ UNCHANGED << input, lastTok, prevOp, prevTok, lexVars, quoteVars,
                    doc, typeName, shape, target0 >>

NextDecode == DoDecode

SpecDecode == InitDecode /\ [][NextDecode]_vars

\* the first two tokens of the input
FirstToken == Read(NewScanner(input))
SecondToken == Read(FirstToken.s)

\* the stream starts with ( and a raw atom equal to the expected name
GoodEnvelope ==
    /\ FirstToken.tok.Type = "LEFT"
    /\ SecondToken.tok = Token("RAW_STRING", typeName)

\* C6: Decode goes on to decode the fields exactly when the stream starts
\* with ( and a raw atom equal to the expected name; on any other start (no
\* opening paren, a name that is not a raw atom, another name) it returns
\* an error.
C6_EnvelopeChecked ==
    lastOp = "Decode" =>
        /\ GoodEnvelope <=> result.at \in {"fields", "done"}
        /\ ~GoodEnvelope => result.st = "error"

\* ( "d" (v 1) ) was refused for its quoted name
C6_Witness ==
    /\ lastOp = "Decode" /\ result.st = "error" /\ result.at = "typeTok"
    /\ FirstToken.tok.Type = "LEFT"
    /\ SecondToken.tok.Type = "QUOTE_STRING"
    /\ typeName = << 100 >>
    /\ doc.items = << Item(Named(<< 118 >>, << Atom(<< 49 >>) >>)) >>
    /\ doc.closed

\* C7: when the name atom of the document is not the expected name, Decode
\* fails, the scanner has read the opening paren and the name and nothing
\* more, and the target is as it was before the call.
C7_WrongNameReadsTwoTokens ==
    (/\ lastOp = "Decode"
     /\ FirstToken.tok.Type = "LEFT"
     /\ SecondToken.tok.Type = "RAW_STRING"
     /\ SecondToken.tok.Data # typeName)
    => /\ result.st = "error"
       /\ scanner = SecondToken.s
       /\ target = target0

\* a wrong name in front of a field the used target would have taken
C7_Witness ==
    /\ lastOp = "Decode" /\ result.at = "typeName"
    /\ FirstToken.tok.Type = "LEFT"
    /\ SecondToken.tok.Type = "RAW_STRING"
    /\ SecondToken.tok.Data # typeName
    /\ target0 = UsedDoc /\ target = UsedDoc
    /\ doc.items = << Item(Named(<< 118 >>, << Atom(<< 49 >>) >>)) >>
    /\ doc.closed
    /\ Peek(scanner).tok.Type = "LEFT"

-----------------------------------------------------------------------------
(* Unknown named tuples *)

Label(it) == it.val.vals[1].text
Body(it) == Tail(it.val.vals)

\* a closed named tuple whose label is the key of no field of the struct
IsUnknownTuple(ty, it) ==
    /\ it.closed /\ it.val.kind = "tuple"
    /\ Len(it.val.vals) >= 1 /\ it.val.vals[1].kind = "atom"
    /\ NameField(ty, Label(it)) = 0

Without(d, i) == [d EXCEPT !.items = Take(d.items, i - 1) \o Drop(d.items, i)]

\* the call ended as r0 did: when r0 succeeded, so did the call, and the
\* target holds what r0 decoded
DecodedLike(r0) == r0.st = "ok" => result.st = "ok" /\ target = r0.v

\* C1: a named tuple whose label is the key of no named field and whose
\* body is one value, an atom or a tuple nested to any depth, is skipped:
\* when the document without the tuple decodes, the document decodes, and
\* to the same value.
C1_UnknownOneValueSkipped ==
    lastOp = "Decode" =>
        \A i \in 1..Len(doc.items) :
            (IsUnknownTuple(shape, doc.items[i]) /\ Len(Body(doc.items[i])) = 1)
            => DecodedLike(Decode(Render(Without(doc, i)), typeName, target0, shape))

\* C1 as claimed: the same for whatever number of values follows the label
C1_UnknownAnyBodySkipped ==
    lastOp = "Decode" =>
        \A i \in 1..Len(doc.items) :
            IsUnknownTuple(shape, doc.items[i])
            => DecodedLike(Decode(Render(Without(doc, i)), typeName, target0, shape))

\* an unknown tuple with a nested body was skipped and the fields around it
\* were decoded
C1_Witness ==
    /\ lastOp = "Decode" /\ result.st = "ok"
    /\ Len(doc.items) = 3
    /\ IsUnknownTuple(shape, doc.items[2])
    /\ Len(Body(doc.items[2])) = 1
    /\ Body(doc.items[2])[1].kind = "tuple"
    /\ target = << 1, << << 98 >> >>, << >> >>

-----------------------------------------------------------------------------
(* Multi fields *)

IsNamed(it, label) ==
    /\ it.val.kind = "tuple" /\ Len(it.val.vals) >= 1
    /\ it.val.vals[1] = Atom(label)

\* the values of the tuples labelled m, and of those labelled n, in source
\* order
MValues(items) ==
    LET ms == SelectSeq(items, LAMBDA it : IsNamed(it, << 109 >>)) IN
    [k \in 1..Len(ms) |-> Body(ms[k])[1].text]

NValues(items) ==
    LET ns == SelectSeq(items, LAMBDA it : IsNamed(it, << 110 >>)) IN
    [k \in 1..Len(ns) |-> << ParseInt(Body(ns[k])[1].text).val, Body(ns[k])[2].text >>]

-----------------------------------------------------------------------------
(* Positional fields left unfilled, and the target after an error *)

\* C9: when the closing paren of the aggregate is reached with positional
\* fields unfilled, Decode succeeds exactly when one field remains and it
\* is flat.
C9_UnfilledPositional ==
    (lastOp = "Decode" /\ result.brk /\ Len(result.pos) > 0)
    => (result.st = "ok"
        <=> (Len(result.pos) = 1 /\ shape.fields[result.pos[1]].flat))

\* ( d a ) into P1: the flat B is the one field left, and Decode succeeded
C9_Witness ==
    /\ lastOp = "Decode" /\ result.st = "ok" /\ result.brk
    /\ shape = P1T /\ result.pos = << 2 >>
    /\ target = << << 97 >>, << >> >>

\* C10: when Decode returns an error the target is as it was before the
\* call.
C10_NoPartialResult ==
    (lastOp = "Decode" /\ result.st = "error") => target = target0

-----------------------------------------------------------------------------
(* A single named field that occurs more than once *)

\* the places of the tuples labelled label
Occurrences(items, label) == {i \in 1..Len(items) : IsNamed(items[i], label)}

\* the last of them
LastOccurrence(items, label) ==
    items[CHOOSE i \in Occurrences(items, label) :
              \A j \in Occurrences(items, label) : j <= i]

\* the number a one-digit atom stands for
DigitOf(val) == val.text[1] - 48

\* the value of the field labelled label in the named tuples vals, 0 when
\* none of them has the label
NamedInt(vals, label) ==
    IF \E i \in 1..Len(vals) : vals[i].vals[1] = Atom(label)
    THEN DigitOf((CHOOSE v \in {vals[i] : i \in 1..Len(vals)} :
                      v.vals[1] = Atom(label)).vals[2])
    ELSE 0

\* C23: when a named field of single cardinality occurs more than once, the
\* decode succeeds and the field holds the value of the last occurrence
\* alone: for the flat struct-valued field, a field of the struct that the
\* last occurrence does not name is zero, whatever an earlier occurrence or
\* the caller had put there.
C23_LastOccurrenceWins ==
    (lastOp = "Decode" /\ shape = SingleT /\ doc.closed)
    => /\ result.st = "ok"
       /\ Cardinality(Occurrences(doc.items, << 118 >>)) >= 2
          => target[1] = DigitOf(Body(LastOccurrence(doc.items, << 118 >>))[1])
       /\ Cardinality(Occurrences(doc.items, << 115 >>)) >= 2
          => target[2] =
                << NamedInt(Body(LastOccurrence(doc.items, << 115 >>)), << 120 >>),
                   NamedInt(Body(LastOccurrence(doc.items, << 115 >>)), << 121 >>) >>

\* (s (x 3) (y 4)) (v 1) (s (y 2)) into a used Single: X is 0, Y is 2
C23_Witness ==
    /\ lastOp = "Decode" /\ shape = SingleT /\ doc.closed
    /\ target0 # Zero(SingleT) /\ Len(doc.items) = 3
    /\ Body(doc.items[1]) = << Named(<< 120 >>, << Atom(<< 51 >>) >>),
                               Named(<< 121 >>, << Atom(<< 52 >>) >>) >>
    /\ IsNamed(doc.items[2], << 118 >>)
    /\ Body(doc.items[3]) = << Named(<< 121 >>, << Atom(<< 50 >>) >>) >>
    /\ result.st = "ok" /\ target[2] = << 0, 2 >>

-----------------------------------------------------------------------------
(* DecodeSimple of one value: an unsigned integer, a map *)

MaxUintLen == 4     \* decodeInt: the longest unsigned literal
MaxEntries == 3     \* decodeMap: the most entries in a map

\* 0 1 f F x X _
UintAlphabet == {48, 49, 102, 70, 120, 88, 95}

\* entries: () (k) (k a) (j b) (k b) (k a b)
MapEntries ==
    {Item(Tuple(<< >>)),
     Item(Tuple(<< Atom(<< 107 >>) >>)),
     Item(Tuple(<< Atom(<< 107 >>), Atom(<< 97 >>) >>)),
     Item(Tuple(<< Atom(<< 106 >>), Atom(<< 98 >>) >>)),
     Item(Tuple(<< Atom(<< 107 >>), Atom(<< 98 >>) >>)),
     Item(Tuple(<< Atom(<< 107 >>), Atom(<< 97 >>), Atom(<< 98 >>) >>))}

\* a map[string]string a caller decoded into before
UsedMap == SetMapIndex(MakeMap, << 122 >>, << 122 >>)

UintCases ==
    /\ doc \in [head : SeqsUpTo(UintAlphabet, MaxUintLen) \ {<< >>},
                items : {<< >>}, closed : {FALSE}]
    /\ shape = UintT /\ target0 \in {0, 7}

MapCases ==
    /\ doc \in [head : {<< LPAREN >>},
                items : SeqsUpTo(MapEntries, MaxEntries),
                closed : BOOLEAN]
    /\ shape = MapT(StringT, StringT) /\ target0 \in {NilMap, UsedMap}

\* elements of a []string: a b
SliceAtoms == {Item(Atom(<< 97 >>)), Item(Atom(<< 98 >>))}

\* elements of a [][]string: () (a) (a b)
SliceTuples ==
    {Item(Tuple(<< >>)),
     Item(Tuple(<< Atom(<< 97 >>) >>)),
     Item(Tuple(<< Atom(<< 97 >>), Atom(<< 98 >>) >>))}

\* what follows the value in the stream: nothing, an atom, a closing paren,
\* an opening paren, an unterminated quoted atom
Tails == {<< >>, << SPC, 97 >>, << RPAREN >>, << SPC, LPAREN >>, << DQUOTE >>}

SliceCases ==
    /\ \/ /\ doc \in [head : {<< LPAREN >>},
                       items : SeqsUpTo(SliceAtoms, MaxItems), closed : BOOLEAN]
          /\ shape = SliceT(StringT)
          /\ target0 \in {<< >>, << << 122 >> >>}
       \/ /\ doc \in [head : {<< LPAREN >>},
                       items : SeqsUpTo(SliceTuples, MaxItems), closed : BOOLEAN]
          /\ shape = SliceT(SliceT(StringT))
          /\ target0 \in {<< >>, << << << 122 >> >> >>}
    /\ input \in {Render(doc) \o tl : tl \in Tails}

InitValue ==
    /\ \/ (UintCases \/ MapCases) /\ input = Render(doc)
       \/ SliceCases
    /\ scanner = NewScanner(input)
    /\ typeName = << >> /\ target = target0 /\ result = Idle
    /\ NoHistory /\ NoLex /\ NoQuote

NextValue == DoDecodeSimple

SpecValue == InitValue /\ [][NextValue]_vars

\* C11: decoding into a map fails when an entry tuple has not exactly two
\* elements (none, one, three or more), and the target is then as it was
\* before the call: no partial mapping is stored.
C11_MapEntryOfTwo ==
    (/\ lastOp = "DecodeSimple" /\ shape.kind = "map"
     /\ \E i \in 1..Len(doc.items) : Len(doc.items[i].val.vals) # 2)
    => result.st = "error" /\ target = target0

\* (k a) (k): the second entry has one element, nothing was stored
C11_Witness ==
    /\ lastOp = "DecodeSimple" /\ shape.kind = "map"
    /\ Len(doc.items) = 2 /\ doc.closed
    /\ Len(doc.items[1].val.vals) = 2
    /\ Len(doc.items[2].val.vals) = 1
    /\ result.st = "error"
    /\ target0 = UsedMap /\ target = UsedMap

\* the value the claim gives an unsigned literal: underscores removed, then
\* base 16 after 0x or 0X, base 10 otherwise
ClaimedUint(data) ==
    IF Len(StripUnderscores(data)) >= 2
       /\ Take(StripUnderscores(data), 2) \in {<< 48, 120 >>, << 48, 88 >>}
    THEN ParseUint(Drop(StripUnderscores(data), 2), 16)
    ELSE ParseUint(StripUnderscores(data), 10)

\* C12: an unsigned integer decodes from a raw atom as the atom without its
\* underscores, in base 16 after a prefix 0x or 0X and in base 10 otherwise.
C12_UintLiteral ==
    (lastOp = "DecodeSimple" /\ shape = UintT)
    => /\ result.st = "ok" <=> ClaimedUint(input).ok
       /\ ClaimedUint(input).ok => target = ClaimedUint(input).val

-----------------------------------------------------------------------------
(* SpecWriter: a caller makes Writer calls in any order, whatever they return,
   and ends with Close. *)

MaxCalls == 7       \* Writer: the most calls in a session

\* the raw atom the session writes, and the strings it hands to
\* WriteQuoteString and WriteString
RawAtom == << 97 >>
SessionStrings == {<< 98 >>, << 98, SPC, 99 >>}

\* what the caller has seen: tuples it opened and has not closed, whether a
\* complete top-level value was written, and what the last write emitted
NoCalls == [open |-> 0, complete |-> FALSE, last |-> "none"]

OpenedOne(g) == [g EXCEPT !.open = g.open + 1, !.last = "open"]
ClosedOne(g, w) ==
    [g EXCEPT !.open = g.open - 1, !.last = "value",
              !.complete = g.complete \/ w.parens = 0]
WroteAtom(g, before) ==
    [g EXCEPT !.last = "value", !.complete = g.complete \/ before.parens = 0]

After(kind, g, before, ret) ==
    IF ret.err THEN g
    ELSE IF kind = "begin" THEN OpenedOne(g)
    ELSE IF kind = "end" THEN ClosedOne(g, ret.w)
    ELSE IF kind = "atom" THEN WroteAtom(g, before)
    ELSE g

\* a new Writer on an empty sink, no call made
FreshWriter ==
    /\ writer = NewWriter
    /\ wlog = [calls |-> 0, err |-> FALSE, failed |-> FALSE, kind |-> "none",
               text |-> << >>, now |-> NoCalls,
               prev |-> [w |-> NewWriter, g |-> NoCalls]]
    /\ unq = Idle /\ lit = Idle
    /\ input = << >> /\ scanner = NewScanner(<< >>)
    /\ NoHistory /\ NoLex /\ NoDecode

InitWriter == str \in SessionStrings /\ FreshWriter

\* one call of the session: op names the method, kind what it writes, text
\* the atom handed to it, ret what it returned
WriterCall(op, kind, text, ret) ==
    /\ lastOp # "Close"
    /\ wlog.calls < MaxCalls
    /\ writer' = ret.w
    /\ wlog' = [calls |-> wlog.calls + 1, err |-> ret.err,
                failed |-> wlog.failed \/ ret.err, kind |-> kind,
                text |-> text, now |-> After(kind, wlog.now, writer, ret),
                prev |-> [w |-> writer, g |-> wlog.now]]
    /\ lastOp' = op
    /\ UNCHANGED << str, unq, lit, input, scanner, lastTok, prevOp, prevTok,
                    lexVars, decodeVars >>

DoBeginTuple == WriterCall("BeginTuple", "begin", << >>, BeginTuple(writer))
DoEndTuple == WriterCall("EndTuple", "end", << >>, EndTuple(writer))
DoWriteRawString ==
    WriterCall("WriteRawString", "atom", RawAtom, WriteRawString(writer, RawAtom))
DoWriteQuoteAtom ==
    WriterCall("WriteQuoteString", "atom", str, WriteQuoteString(writer, str))
DoWriteString == WriterCall("WriteString", "atom", str, WriteString(writer, str))
DoWriteToken ==
    \/ WriterCall("WriteToken", "begin", << LPAREN >>,
                  WriteToken(writer, Token("LEFT", << LPAREN >>)))
    \/ WriterCall("WriteToken", "begin", << RPAREN >>,
                  WriteToken(writer, Token("RIGHT", << RPAREN >>)))
    \/ WriterCall("WriteToken", "atom", RawAtom,
                  WriteToken(writer, Token("RAW_STRING", RawAtom)))
DoClose == WriterCall("Close", "close", << >>, Close(writer))

NextWriter ==
    \/ DoBeginTuple
    \/ DoEndTuple
    \/ DoWriteRawString
    \/ DoWriteQuoteAtom
    \/ DoWriteString
    \/ DoWriteToken
    \/ DoClose

SpecWriter == InitWriter /\ [][NextWriter]_vars

\* the bytes of the output outside quoted atoms: the session's strings hold
\* no paren, so every paren of the output is a tuple delimiter
Parens(out) == SelectSeq(out, LAMBDA b : b \in {LPAREN, RPAREN})

RECURSIVE DepthAfter(_, _)
\* the nesting depth after the first n delimiters of ps
DepthAfter(ps, n) ==
    IF n = 0 THEN 0
    ELSE DepthAfter(ps, n - 1) + (IF ps[n] = LPAREN THEN 1 ELSE -1)

\* the output is exactly one balanced top-level value
OneBalancedValue(out) ==
    /\ out # << >>
    /\ DepthAfter(Parens(out), Len(Parens(out))) = 0
    /\ \A n \in 1..Len(Parens(out)) : DepthAfter(Parens(out), n) >= 0
    /\ \A n \in 1..(Len(Parens(out)) - 1) : DepthAfter(Parens(out), n) > 0
    /\ (out[1] # LPAREN => Parens(out) = << >>)
    /\ (out[1] = LPAREN => out[Len(out)] = RPAREN)

\* C13: after any sequence of Writer calls that ends in a successful Close,
\* the output is exactly one balanced top-level value: as many ( as ), no
\* prefix closing more than it opened, nothing after the first complete value.
C13_CloseMeansOneValue ==
    (lastOp = "Close" /\ ~wlog.err) => OneBalancedValue(writer.out)

\* the methods that begin a value
ValueCalls == {"BeginTuple", "WriteRawString", "WriteQuoteString", "WriteString"}

C15_CloseChecks ==
    lastOp = "Close"
    => (wlog.err <=> (wlog.prev.g.open > 0 \/ ~wlog.prev.g.complete))

\* C16: EndTuple called when no tuple is open (depth 0) returns the
\* unbalanced-delimiters error, never success.
C16_EndTupleAtDepthZero ==
    (lastOp = "EndTuple" /\ (wlog.prev.g.open = 0 \/ wlog.prev.w.parens = 0))
    => wlog.err

\* a tuple was opened and closed, and EndTuple is called once more
C16_Witness ==
    /\ lastOp = "EndTuple" /\ wlog.err
    /\ wlog.prev.g.open = 0 /\ wlog.prev.w.parens = 0
    /\ wlog.prev.w.out = << LPAREN, RPAREN >>

\* what the last call appended to the output
Emitted == Drop(writer.out, Len(wlog.prev.w.out))

\* the forms in which an atom can be written
AtomForms(text) == {text, << DQUOTE >> \o QuoteBytes(text) \o << DQUOTE >>}

\* C18: in a sequence of Writer calls that all succeeded, a BeginTuple at
\* depth d >= 1 emits a newline and exactly 2*d spaces before its (; an atom
\* that follows an atom or a ) inside a tuple is preceded by exactly one
\* space; an atom right after ( has nothing before it; EndTuple emits the )
\* alone; and BeginTuple emits nothing after its (.
C18_Layout ==
    (~wlog.failed /\ wlog.calls > 0)
    => /\ Take(writer.out, Len(wlog.prev.w.out)) = wlog.prev.w.out
       /\ (wlog.kind = "begin" /\ wlog.prev.g.open >= 1)
          => Emitted = << LF >> \o Spaces(2 * wlog.prev.g.open) \o << LPAREN >>
       /\ (wlog.kind = "begin" /\ wlog.prev.g.open = 0)
          => Emitted = << LPAREN >>
       /\ (wlog.kind = "atom" /\ wlog.prev.g.open >= 1 /\ wlog.prev.g.last = "value")
          => \E a \in AtomForms(wlog.text) : Emitted = << SPC >> \o a
       /\ (wlog.kind = "atom" /\ wlog.prev.g.last = "open")
          => Emitted \in AtomForms(wlog.text)
       /\ wlog.kind = "end" => Emitted = << RPAREN >>

\* the session begin, raw a, begin, raw a, end, end has written the nested
\* tuple on its own line, indented by two spaces, with no space before )
C18_Witness ==
    /\ ~wlog.failed /\ lastOp = "EndTuple" /\ wlog.calls = 6
    /\ writer.out = << LPAREN, 97, LF, SPC, SPC, LPAREN, 97, RPAREN, RPAREN >>

\* C27: WriteToken has the effect of BeginTuple for a LEFT token, of
\* EndTuple for a RIGHT token (it writes ) and decreases the depth), and
\* writes the Data of any other token verbatim.
C27_WriteTokenEffect ==
    lastOp = "WriteToken"
    => /\ wlog.text = << LPAREN >>
          => WriterRet(wlog.err, writer) = BeginTuple(wlog.prev.w)
       /\ wlog.text = << RPAREN >>
          => WriterRet(wlog.err, writer) = EndTuple(wlog.prev.w)
       /\ wlog.text = RawAtom
          => WriterRet(wlog.err, writer) = WriteRawString(wlog.prev.w, RawAtom)

-----------------------------------------------------------------------------
(* SpecWriteString: WriteString on a new Writer, for every short string. *)

WriteStringAlphabet ==
    {97, DQUOTE, SPC, TAB, CR, LF, LPAREN, RPAREN, HASH, NUL, BSP}

InitWriteString ==
    str \in SeqsUpTo(WriteStringAlphabet, MaxStrLen) /\ FreshWriter

SpecWriteString == InitWriteString /\ [][DoWriteString]_vars

\* the bytes that make WriteString quote, as the claim lists them
ClaimedQuotingBytes == {SPC, TAB, CR, LF, LPAREN, RPAREN, HASH, NUL}

\* C17: WriteString writes the text as a quoted atom if it contains a
\* whitespace byte (space, tab, CR, LF), a paren, # or NUL, and as a raw atom
\* otherwise.
C17_WriteStringQuotes ==
    (lastOp = "WriteString" /\ wlog.calls = 1)
    => writer.out =
          IF \E i \in 1..Len(str) : str[i] \in ClaimedQuotingBytes
          THEN << DQUOTE >> \o QuoteBytes(str) \o << DQUOTE >>
          ELSE str

-----------------------------------------------------------------------------
(* Sequences  (SpecValue) *)

RECURSIVE ValueOf(_)
\* the value a well-formed element stands for: the text of a raw atom, the
\* sequence of the values of a tuple's elements
ValueOf(val) ==
    IF val.kind = "atom" THEN val.text
    ELSE [i \in 1..Len(val.vals) |-> ValueOf(val.vals[i])]

\* the bytes of the input after the text of doc
TailOf == Drop(input, Len(Render(doc)))

\* the bytes the scanner has neither handed out as a token nor skipped
Unread(s) == s.buf \o s.rd

\* C22: decoding ( e1 ... en ) into a sequence target yields exactly the n
\* elements in source order, n >= 0, also for sequences of sequences, and
\* consumes the tokens through the matching closing paren and no further:
\* what follows the paren is unread and no token of it is peeked.
C22_SliceElements ==
    (lastOp = "DecodeSimple" /\ shape.kind = "slice" /\ doc.closed)
    => /\ result.st = "ok"
       /\ target = [i \in 1..Len(doc.items) |-> ValueOf(doc.items[i].val)]
       /\ ~scanner.hasPeeked /\ Unread(scanner) = TailOf

\* ((a b) ()) followed by a closing paren, decoded into a used [][]string
C22_Witness ==
    /\ lastOp = "DecodeSimple" /\ shape = SliceT(SliceT(StringT))
    /\ doc.closed /\ Len(doc.items) = 2 /\ TailOf = << RPAREN >>
    /\ target0 # << >>
    /\ target = << << << 97 >>, << 98 >> >>, << >> >>
    /\ result.st = "ok" /\ Unread(scanner) = << RPAREN >>

-----------------------------------------------------------------------------
(* SpecCut: Decode and DecodeSimple of a document cut off after any byte *)

MaxCutItems == 2    \* the most items in a document that is cut off

\* items of a Doc: (v 1) (m a) (m "a") (n 1 a) (u x) (u (x (y)))
CutItems ==
    {Item(Named(<< 118 >>, << Atom(<< 49 >>) >>)),
     Item(Named(<< 109 >>, << Atom(<< 97 >>) >>)),
     Item(Named(<< 109 >>, << Atom(<< DQUOTE, 97, DQUOTE >>) >>)),
     Item(Named(<< 110 >>, << Atom(<< 49 >>), Atom(<< 97 >>) >>)),
     Item(Named(<< 117 >>, << Atom(<< 120 >>) >>)),
     Item(Named(<< 117 >>,
                << Tuple(<< Atom(<< 120 >>), Tuple(<< Atom(<< 121 >>) >>) >>) >>))}

\* documents of every shape, closed
CutDocs ==
    \/ /\ doc \in [head : {<< LPAREN, 100 >>},
                   items : SeqsUpTo(CutItems, MaxCutItems),
                   closed : {TRUE}]
       /\ typeName = << 100 >> /\ shape = DocT /\ target0 = Zero(DocT)
    \/ /\ doc \in [head : {<< LPAREN, 100 >>},
                   items : SeqsUpTo(SingleItems, MaxCutItems), closed : {TRUE}]
       /\ typeName = << 100 >> /\ shape = SingleT /\ target0 = Zero(SingleT)
    \/ /\ doc \in [head : {<< LPAREN, 100 >>},
                   items : SeqsUpTo(AtomItems, MaxCutItems), closed : {TRUE}]
       /\ typeName = << 100 >> /\ shape \in {P1T, P2T, P3T, P4T}
       /\ target0 = Zero(shape)
    \/ /\ doc \in [head : {<< LPAREN >>},
                   items : SeqsUpTo(MapEntries, MaxCutItems), closed : {TRUE}]
       /\ typeName = << >> /\ shape = MapT(StringT, StringT) /\ target0 = NilMap
    \/ /\ doc \in [head : {<< LPAREN >>},
                   items : SeqsUpTo(SliceAtoms \cup SliceTuples, MaxCutItems),
                   closed : {TRUE}]
       /\ typeName = << >>
       /\ shape \in {SliceT(StringT), SliceT(SliceT(StringT)), P2T}
       /\ target0 = Zero(shape)

InitCut ==
    /\ CutDocs
    /\ input \in {Take(Render(doc), k) : k \in 0..Len(Render(doc))}
    /\ scanner = NewScanner(input)
    /\ target = target0 /\ result = Idle
    /\ NoHistory /\ NoLex /\ NoQuote

NextCut == DoDecode \/ DoDecodeSimple

SpecCut == InitCut /\ [][NextCut]_vars

\* the stream opens a tuple and ends before that tuple is closed
EndsInsideTuple(in) ==
    /\ in # << >> /\ in[1] = LPAREN
    /\ \A n \in 1..Len(Parens(in)) : DepthAfter(Parens(in), n) > 0

\* C24: Decode and DecodeSimple return an error whenever the stream ends
\* while a tuple opened during the decode is unclosed (the envelope, a
\* named-field tuple, a sequence, a map, a map entry, a nested aggregate, a
\* skipped unknown tuple); they never succeed on such a stream.
C24_TruncatedIsError ==
    (lastOp \in {"Decode", "DecodeSimple"} /\ EndsInsideTuple(input))
    => result.st = "error"

\* ( d ( u ( x : the stream ends inside an unknown tuple that is being
\* skipped
C24_Witness ==
    /\ lastOp = "Decode" /\ shape = DocT
    /\ input = << LPAREN, 100, SPC, LPAREN, 117, SPC, LPAREN, 120 >>
    /\ EndsInsideTuple(input) /\ result.st = "error"

-----------------------------------------------------------------------------
(* Documents followed by more bytes  (SpecTail) *)

\* the closed documents for aggregate targets, each followed by a tail
InitTail ==
    /\ CutDocs /\ typeName = << 100 >>
    /\ input \in {Render(doc) \o tl : tl \in Tails}
    /\ scanner = NewScanner(input)
    /\ target = target0 /\ result = Idle
    /\ NoHistory /\ NoLex /\ NoQuote

\* Decode of the stream; alone is what Decode makes of the document without
\* its tail
DoDecodeTail ==
    /\ lastOp = "init"
    /\ LET r == Decode(input, typeName, target, shape)
           a == Decode(Render(doc), typeName, target, shape) IN
       /\ scanner' = r.s
       /\ target' = r.v
       /\ result' = [st |-> r.st, at |-> r.at,
                     alone |-> [st |-> a.st, v |-> a.v]]
    /\ lastOp' = "DecodeTail"
    /\ UNCHANGED << input, lastTok, prevOp, prevTok, lexVars, quoteVars,
                    doc, typeName, shape, target0 >>

SpecTail == InitTail /\ [][DoDecodeTail]_vars

\* C30: a successful Decode consumes the tokens from the opening paren of the
\* envelope through its matching closing paren and no more: what follows the
\* paren is unread, no token of it is peeked, and it changes neither the
\* success nor the decoded value.
C30_TailUntouched ==
    lastOp = "DecodeTail"
    => /\ result.alone.st = "ok" => result.st = "ok" /\ target = result.alone.v
       /\ result.st = "ok" => /\ Unread(scanner) = TailOf
                              /\ ~scanner.hasPeeked
                              /\ result.alone.st = "ok"

\* ( d ( v 1 ) ) followed by a space and an opening paren
C30_Witness ==
    /\ lastOp = "DecodeTail" /\ shape = DocT
    /\ doc.items = << Item(Named(<< 118 >>, << Atom(<< 49 >>) >>)) >>
    /\ TailOf = << SPC, LPAREN >>
    /\ result.st = "ok" /\ target # target0

-----------------------------------------------------------------------------
(* The loops of the decoder, one iteration at a time  (SpecLoop) *)

\* what one iteration of a loop comes to: "next" for another iteration,
\* "break" or "return" for the end of the loop, "error" or "panic" for a
\* failure; with it the scanner, the nesting count of decodeSkip and the
\* positional fields of decodeSequenceIntoStruct still unfilled
IterRet(st, s, nest, posFields) ==
    [st |-> st, s |-> s, nest |-> nest, pos |-> posFields]

\* skipIter going round again at the end of the stream
skipIterPastEOF(r, nest) ==
    IF r.tok.Type = "LEFT" THEN IterRet("next", r.s, nest + 1, << >>)
    ELSE IF r.tok.Type = "RIGHT"
         THEN IF nest - 1 = 0 THEN IterRet("return", r.s, nest - 1, << >>)
              ELSE IterRet("next", r.s, nest - 1, << >>)
    ELSE IterRet("next", r.s, nest, << >>)

\* one iteration of the loop of decodeSkip  (pcb.go:554-568); r is what
\* s.Read() returned
skipIter(r, nest) ==
    IF r.tok.Type = "LEFT" THEN IterRet("next", r.s, nest + 1, << >>)
    ELSE IF r.tok.Type = "RIGHT"
         THEN IF nest - 1 = 0 THEN IterRet("return", r.s, nest - 1, << >>)
              ELSE IterRet("next", r.s, nest - 1, << >>)
    ELSE IF r.tok.Type = "EOF" THEN IterRet("error", r.s, nest, << >>)
    ELSE IterRet("next", r.s, nest, << >>)

\* one iteration of the loop of decodeSequenceIntoSlice  (pcb.go:713-733);
\* p is what s.Peek() returned, e what decodeIntoValue returned
sliceIterDecoded(e) ==
    IF e.st # "ok" THEN IterRet(e.st, e.s, 0, << >>)
    ELSE IterRet("next", e.s, 0, << >>)

sliceIter(p, ty) ==
    IF p.tok.Type = "RIGHT" THEN IterRet("break", p.s, 0, << >>)
    ELSE IF p.tok.Type = "EOF" THEN IterRet("error", p.s, 0, << >>)
    ELSE sliceIterDecoded(decodeIntoValue(p.s, Zero(ty.elem), ty.elem))

\* one iteration of the loop of decodeMap  (pcb.go:751-796)
mapIterClose(p) ==
    IF p.tok.Type # "RIGHT" THEN IterRet("error", p.s, 0, << >>)
    ELSE IterRet("next", Consume(p.s), 0, << >>)

mapIterVal(e) ==
    IF e.st # "ok" THEN IterRet(e.st, e.s, 0, << >>)
    ELSE mapIterClose(Peek(e.s))

mapIterValPeeked(p, ty) ==
    IF p.tok.Type = "EOF" THEN IterRet("error", p.s, 0, << >>)
    ELSE mapIterVal(decodeIntoValue(p.s, Zero(ty.elem), ty.elem))

mapIterKeyPeeked(p, ty) ==
    IF p.tok.Type = "RIGHT" THEN IterRet("error", p.s, 0, << >>)
    ELSE mapIterValPeeked(Peek(p.s), ty)

mapIterKey(k, ty) ==
    IF k.st # "ok" THEN IterRet(k.st, k.s, 0, << >>)
    ELSE mapIterKeyPeeked(Peek(k.s), ty)

mapIter(p, ty) ==
    IF p.tok.Type = "RIGHT" THEN IterRet("break", Consume(p.s), 0, << >>)
    ELSE IF p.tok.Type = "EOF" THEN IterRet("error", p.s, 0, << >>)
    ELSE IF p.tok.Type # "LEFT" THEN IterRet("error", p.s, 0, << >>)
    ELSE mapIterKey(decodeIntoValue(Consume(p.s), Zero(ty.key), ty.key), ty)

\* one iteration of the loop of decodeSequenceIntoStruct  (pcb.go:885-990);
\* r is what decodeSkip or the decode of the field's value returned, c the
\* token read where a closing paren is needed
structIterClosed(c, posFields) ==
    IF c.tok.Type # "RIGHT" THEN IterRet("error", c.s, 0, posFields)
    ELSE IterRet("next", c.s, 0, posFields)

structIterDone(r, posFields, needClose) ==
    IF r.st # "ok" THEN IterRet(r.st, r.s, 0, posFields)
    ELSE IF needClose THEN structIterClosed(Read(r.s), posFields)
    ELSE IterRet("next", r.s, 0, posFields)

structIterField(s, ty, posFields, fieldDef, needClose) ==
    IF fieldDef = 0 THEN structIterDone(decodeSkip(s), posFields, needClose)
    ELSE structIterDone(decodeFieldValue(s, ty.fields[fieldDef]),
                        posFields, needClose)

structIterLabel(label, ty, posFields) ==
    IF label.tok.Type # "RAW_STRING"
    THEN IterRet("error", label.s, 0, posFields)
    ELSE structIterField(Consume(label.s), ty, posFields,
                         NameField(ty, label.tok.Data), TRUE)

structIter(p, ty, posFields) ==
    IF p.tok.Type = "RIGHT" THEN IterRet("break", p.s, 0, posFields)
    ELSE IF p.tok.Type = "EOF" THEN IterRet("error", p.s, 0, posFields)
    ELSE IF Len(posFields) > 0
    THEN structIterField(p.s, ty, Tail(posFields), Head(posFields), FALSE)
    ELSE IF p.tok.Type # "LEFT" THEN IterRet("error", p.s, 0, posFields)
    ELSE structIterLabel(Peek(Consume(p.s)), ty, posFields)

MaxLoopItems == 2    \* the most items in a document a loop runs over

\* items: a  ()  (v 1)  (s (x 1))  (u (x))
LoopItems ==
    {Item(Atom(<< 97 >>)),
     Item(Tuple(<< >>)),
     Item(Named(<< 118 >>, << Atom(<< 49 >>) >>)),
     Item(Named(<< 115 >>, << Named(<< 120 >>, << Atom(<< 49 >>) >>) >>)),
     Item(Named(<< 117 >>, << Tuple(<< Atom(<< 120 >>) >>) >>))}

\* the scanner after k tokens were read, with the last of them
RECURSIVE ReadN(_, _)
ReadN(s, k) == IF k = 1 THEN Read(s) ELSE ReadN(Read(s).s, k - 1)

\* the loops as the decoder enters them: after the opening paren of a
\* tuple or after a label, the loop of decodeSkip with an opening paren
\* peeked; e is the token before the loop with the scanner after it
LoopEntry(e) ==
    \/ /\ e.tok.Type \in {"LEFT", "RAW_STRING"}
       /\ shape \in {DocT, SingleT, P1T, P2T}
       /\ scanner = e.s
       /\ result = [st |-> "next", kind |-> "struct", nest |-> 0,
                    pos |-> PosFields(shape)]
    \/ /\ e.tok.Type \in {"LEFT", "RAW_STRING"}
       /\ shape \in {SliceT(StringT), SliceT(SliceT(StringT))}
       /\ scanner = e.s
       /\ result = [st |-> "next", kind |-> "slice", nest |-> 0, pos |-> << >>]
    \/ /\ e.tok.Type = "LEFT"
       /\ shape = MapT(StringT, StringT)
       /\ scanner = e.s
       /\ result = [st |-> "next", kind |-> "map", nest |-> 0, pos |-> << >>]
    \/ /\ e.tok.Type = "RAW_STRING" /\ Peek(e.s).tok.Type = "LEFT"
       /\ shape = StringT
       /\ scanner = Peek(e.s).s
       /\ result = [st |-> "next", kind |-> "skip", nest |-> 0, pos |-> << >>]

\* every loop entered at every token of every stream that ends at any byte
\* of a document
InitLoop ==
    /\ doc \in [head : {<< LPAREN, 100 >>, << LPAREN >>},
                items : SeqsUpTo(LoopItems, MaxLoopItems), closed : {TRUE}]
    /\ input \in {Take(Render(doc), k) : k \in 0..Len(Render(doc))}
    /\ \E k \in 1..Len(input) : LoopEntry(ReadN(NewScanner(input), k))
    /\ typeName = << >> /\ target0 = << >> /\ target = << >>
    /\ NoHistory /\ NoLex /\ NoQuote

Iterate(kind, r) ==
    /\ result.st = "next" /\ result.kind = kind
    /\ scanner' = r.s
    /\ result' = [st |-> r.st, kind |-> kind, nest |-> r.nest, pos |-> r.pos]
    /\ lastOp' = kind
    /\ UNCHANGED << input, lastTok, prevOp, prevTok, lexVars, quoteVars,
                    doc, typeName, shape, target0, target >>

DoSkipIter == Iterate("skip", skipIter(Read(scanner), result.nest))
DoSliceIter == Iterate("slice", sliceIter(Peek(scanner), shape))
DoMapIter == Iterate("map", mapIter(Peek(scanner), shape))
DoStructIter == Iterate("struct", structIter(Peek(scanner), shape, result.pos))

NextLoop == DoSkipIter \/ DoSliceIter \/ DoMapIter \/ DoStructIter

SpecLoop == InitLoop /\ [][NextLoop]_vars

\* the tokens a caller would still read from the scanner, EOF included
TokensLeft(s) == Len(ReadAll(s, 0, << >>, {}).toks)

\* C29: every iteration of the aggregate, sequence, map and skip loops
\* either ends the loop (at the closing paren or with an error) or leaves
\* fewer tokens to read than it found, also at the end of the stream; the
\* tokens of a finite stream being finitely many, no loop runs forever.
C29_IterationConsumes ==
    [][result'.st = "next" => TokensLeft(scanner') < TokensLeft(scanner)]_vars

\* ( d ( u ( x : the loop of decodeSkip, entered after the label u, reads
\* on to the end of the stream and returns an error there
C29_Witness ==
    /\ lastOp = "skip" /\ result.st = "error" /\ scanner.eof
    /\ input = << LPAREN, 100, SPC, LPAREN, 117, SPC, LPAREN, 120 >>

====
